---- MODULE Spec2Model ----
(***************************************************************************)
(* RusticOS interrupt layer: vector table, 8259 PIC driver, request-line   *)
(* and exception dispatch, PIT tick counter.  Foreground code (boot        *)
(* sequence, then kernel API calls) is preempted by request lines at       *)
(* instruction boundaries whenever the interrupt flag is set.              *)
(***************************************************************************)
EXTENDS Integers, Sequences, FiniteSets, TLC

\* ------------------------------------------------------------------ bounds
\* cap on the number of timer dispatches explored
MaxTicks == 3
\* scaled stand-in for 2^32, the width of one half of the 64-bit counter
WordMod == 2
\* cap on nested interrupt frames (only a faulty entry path nests)
MaxNest == 2
\* scaled stand-in for the 1000 polls of one wait_rtc_update
MaxPolls == 3
\* cap on the RTC update cycles that complete during one get_rtc_time call
MaxUpdates == 2

\* --------------------------------------------------------- program constants
PIC1_COMMAND == 32
PIC1_DATA == 33
PIC2_COMMAND == 160
PIC2_DATA == 161
PIC_EOI == 32
PIC_ICW1_INIT == 16
PIC_ICW1_ICW4 == 1
PIC_ICW4_8086 == 1
IRQ_BASE == 32
IRQ_TIMER == 0
IRQ_KEYBOARD == 1
PIT_CH0_DATA == 64
PIT_COMMAND == 67
PIT_BASE_FREQUENCY == 1193182
PIT_DEFAULT_FREQUENCY == 18
KBD_DATA_PORT == 96
KERNEL_CS == 8
GATE_INT32 == 142
PAGE_FAULT == 14
NMI == 2
EXT_PREFIX == 224
BREAK_PREFIX == 240
LEFT_SHIFT == 42
RIGHT_SHIFT == 54
KEY_SPACE == 57
KEY_ENTER == 28
KEY_BACKSPACE == 14
TABLE_SIZE == 58
RTC_SECONDS == 0
RTC_MINUTES == 2
RTC_HOURS == 4
RTC_DAY == 7
RTC_MONTH == 8
RTC_YEAR == 9
RTC_CENTURY == 50
RTC_STATUS_A == 10
RTC_STATUS_B == 11
RTC_A_UIP == 128
RTC_B_24HOUR == 2
RTC_B_BCD == 4
RTC_TIMEZONE_OFFSET == 2

\* ------------------------------------------------------------- input sets
\* mask register contents left by the firmware before init_pic
InitMasks == {0, 184, 255}
\* scan-code bytes the keyboard data port may deliver
ScanCodes == {30}
\* arguments foreground code passes to enable_irq / disable_irq
LineArgs == {2, 9, 16}
\* arguments foreground code passes to set_pit_frequency
FreqArgs == {100}
\* bytes the decoder is fed: prefixes, both shifts, the overridden keys, table
\* edges, unmapped codes, and the release bytes of each (bit 7 set)
DecBytes == {0, 14, 28, 30, 42, 53, 54, 56, 57, 58, 127,
             128, 142, 156, 158, 170, 181, 182, 184, 185, 186, 224, 240, 255}

VARIABLES
    pc,                \* position of the foreground code
    loc,               \* locals of the foreground operation in progress
    fg_log,            \* port accesses of the foreground operation in progress
    iflag,             \* CPU interrupt-enable flag (EFLAGS.IF)
    halted,            \* CPU stopped by hlt
    idt_built,         \* init_idt has filled the vector table
    idt_loaded,        \* lidt executed
    hw,                \* controller and timer registers
    stack,             \* interrupt frames, innermost last
    system_ticks,      \* the tick counter
    timer_dispatches,  \* number of line-0 deliveries so far
    kbd_last,          \* last byte handed to the keyboard driver
    diag,              \* lines of the last exception report on the terminal
    mask_hist,         \* caller's record of its latest enable_irq / disable_irq call
    shift_pressed,         \* decoder: a shift key is held
    expecting_break_code,  \* decoder: the 0xF0 prefix was seen
    last_scan_code,        \* decoder: recorded extended prefix
    dec_hist,              \* the two latest decoded bytes and what they returned
    cmos,                  \* RTC / CMOS registers and update cycle
    rtc,                   \* position and locals of get_rtc_time
    rtc_time               \* the caller's RTCTime structure

\* the keyboard decoder's statics and the record of its latest calls
decoder == <<shift_pressed, expecting_break_code, last_scan_code, dec_hist>>

\* the RTC, the call reading it and the caller's structure
rtc_vars == <<cmos, rtc, rtc_time>>

vars == <<pc, loc, fg_log, iflag, halted, idt_built, idt_loaded, hw, stack,
          system_ticks, timer_dispatches, kbd_last, diag, mask_hist, decoder, rtc_vars>>

\* ------------------------------------------------------------- bit helpers
Pow2(i) == 2 ^ i
Bit(x, i) == (x \div Pow2(i)) % 2
SetBit(x, i) == IF Bit(x, i) = 1 THEN x ELSE x + Pow2(i)
ClearBit(x, i) == IF Bit(x, i) = 1 THEN x - Pow2(i) ELSE x

Last(s) == s[Len(s)]
Front(s) == SubSeq(s, 1, Len(s) - 1)

In(port, val) == [op |-> "in", port |-> port, val |-> val]
Out(port, val) == [op |-> "out", port |-> port, val |-> val]
Note(what, val) == [op |-> what, port |-> 0, val |-> val]

\* ------------------------------------------------------------ vector table
NullGate == [offset_low |-> 0, selector |-> 0, zero |-> 0, type_attr |-> 0,
             offset_high |-> 0]

\* link address of the trampoline of vector v (isr_v for v < 32, irq_v above)
StubBase == 69632
StubAddr(v) == StubBase + 16 * v

\* variant: the high half taken without the shift
idt_set_gate_unshifted(t, num, base, selector, flags) ==
    [t EXCEPT ![num] = [offset_low |-> base % 65536,
                        selector |-> selector,
                        zero |-> 0,
                        type_attr |-> flags,
                        offset_high |-> base % 65536]]

idt_set_gate(t, num, base, selector, flags) ==
    [t EXCEPT ![num] = [offset_low |-> base % 65536,
                        selector |-> selector,
                        zero |-> 0,
                        type_attr |-> flags,
                        offset_high |-> (base \div 65536) % 65536]]

RECURSIVE SetGates(_, _, _)
SetGates(t, v, last) ==
    IF v > last THEN t
    ELSE SetGates(idt_set_gate(t, v, StubAddr(v), KERNEL_CS, GATE_INT32), v + 1, last)

\* variant: only the exception gates are installed
init_idt_exceptions(t) == SetGates(t, 0, 31)

\* init_idt: gates 0..31 for the exception stubs, 32..47 for the IRQ stubs
init_idt(t) == SetGates(t, 0, 47)

\* the table as crt0.s reserves it (.space 256*8, 0) and as init_idt leaves it
ZeroTable == [v \in 0..255 |-> NullGate]
BuiltTable == init_idt(ZeroTable)

GateOffset(g) == g.offset_low + 65536 * g.offset_high
\* the vector whose trampoline lives at the address a gate points to
StubAt(addr) == (addr - StubBase) \div 16
\* variant: the trampoline pushes its vector number
IrqStubLine_vector(v) == v

\* the number an IRQ trampoline pushes: IRQ 32,0 .. IRQ 47,15
IrqStubLine(v) == v - 32
\* exception trampolines that leave the CPU-pushed error code on the stack
StubTakesErrCode(v) == v \in {8, 10, 11, 12, 13, 14, 17, 30}

\* ------------------------------------------------------------ hardware model
HwInit(m1, m2) ==
    [pic1_mask |-> m1, pic2_mask |-> m2,
     pic1_icw |-> 0, pic2_icw |-> 0,
     pic1_base |-> 8, pic2_base |-> 112,
     isr1 |-> {}, isr2 |-> {},
     pit_cmd |-> 0, pit_hi_next |-> FALSE, pit_lo |-> 0, pit_div |-> 0]

\* lowest-numbered (highest-priority) member of a non-empty set
Lowest(S) == CHOOSE x \in S : \A y \in S : x <= y

\* effect of one byte written to a port
HwOut(h, port, val) ==
    CASE port = PIC1_COMMAND /\ Bit(val, 4) = 1 -> [h EXCEPT !.pic1_icw = 1]
      [] port = PIC2_COMMAND /\ Bit(val, 4) = 1 -> [h EXCEPT !.pic2_icw = 1]
      [] port = PIC1_COMMAND /\ val = PIC_EOI ->
            IF h.isr1 = {} THEN h ELSE [h EXCEPT !.isr1 = @ \ {Lowest(@)}]
      [] port = PIC2_COMMAND /\ val = PIC_EOI ->
            IF h.isr2 = {} THEN h ELSE [h EXCEPT !.isr2 = @ \ {Lowest(@)}]
      [] port = PIC1_DATA ->
            CASE h.pic1_icw = 1 -> [h EXCEPT !.pic1_base = val, !.pic1_icw = 2]
              [] h.pic1_icw = 2 -> [h EXCEPT !.pic1_icw = 3]
              [] h.pic1_icw = 3 -> [h EXCEPT !.pic1_icw = 0]
              [] OTHER -> [h EXCEPT !.pic1_mask = val]
      [] port = PIC2_DATA ->
            CASE h.pic2_icw = 1 -> [h EXCEPT !.pic2_base = val, !.pic2_icw = 2]
              [] h.pic2_icw = 2 -> [h EXCEPT !.pic2_icw = 3]
              [] h.pic2_icw = 3 -> [h EXCEPT !.pic2_icw = 0]
              [] OTHER -> [h EXCEPT !.pic2_mask = val]
      [] port = PIT_COMMAND -> [h EXCEPT !.pit_cmd = val, !.pit_hi_next = FALSE]
      [] port = PIT_CH0_DATA ->
            IF h.pit_hi_next
            THEN [h EXCEPT !.pit_div = h.pit_lo + 256 * val, !.pit_hi_next = FALSE]
            ELSE [h EXCEPT !.pit_lo = val, !.pit_hi_next = TRUE]
      [] OTHER -> h

\* a request line reaches the CPU only if its mask bit is clear (and, for the
\* secondary controller, the cascade line 2 of the primary is clear too)
LineEnabled(h, n) ==
    IF n < 8 THEN Bit(h.pic1_mask, n) = 0 /\ n \notin h.isr1
    ELSE /\ Bit(h.pic2_mask, n - 8) = 0
         /\ Bit(h.pic1_mask, 2) = 0
         /\ (n - 8) \notin h.isr2
         /\ 2 \notin h.isr1

\* the vector the controllers present for line n
LineVector(h, n) == IF n < 8 THEN h.pic1_base + n ELSE h.pic2_base + (n - 8)

RaiseLine(h, n) ==
    IF n < 8 THEN [h EXCEPT !.isr1 = @ \cup {n}]
    ELSE [h EXCEPT !.isr1 = @ \cup {2}, !.isr2 = @ \cup {n - 8}]

\* ------------------------------------------------------------------- state
\* the vector table in memory: written by init_idt and by nothing else
idt == IF idt_built THEN BuiltTable ELSE ZeroTable

LocInit == [fn |-> "none", i |-> 0, a1 |-> 0, a2 |-> 0, divisor |-> 0,
            ret |-> "run", irq |-> 0, port |-> 0, value |-> 0,
            first |-> "lo", lo |-> 0, hi |-> 0, start |-> 0, result |-> 0,
            frequency |-> 0, if_call |-> FALSE]

\* no enable_irq / disable_irq call made so far
NoCall == [fn |-> "none", irq |-> 0, m1 |-> 0, m2 |-> 0, en_bit |-> 2]

\* ------------------------------------------------------- keyboard decoder
\* characters are their ASCII codes; 0 is "no character"
unshifted ==
    <<   0,   0,  49,  50,  51,  52,  53,  54,  55,  56,
        57,  48,  45,  61,   8,   9, 113, 119, 101, 114,
       116, 121, 117, 105, 111, 112,  91,  93,  10,   0,
        97, 115, 100, 102, 103, 104, 106, 107, 108,  59,
        39,  96,   0,  92, 122, 120,  99, 118,  98, 110,
       109,  44,  46,  47,   0,   0,  32,   0 >>

shifted ==
    <<   0,   0,  33,  64,  35,  36,  37,  94,  38,  42,
        40,  41,  95,  43,   8,   9,  81,  87,  69,  82,
        84,  89,  85,  73,  79,  80, 123, 125,  10,   0,
        65,  83,  68,  70,  71,  72,  74,  75,  76,  58,
        34, 126,   0, 124,  90,  88,  67,  86,  66,  78,
        77,  60,  62,  63,   0,   0,  32,   0 >>

\* marks a decode that consulted no table
NoIndex == -1

\* table[code]; a subscript past the array reads whatever follows it in memory
TableAt(table, code) ==
    IF code + 1 \in DOMAIN table THEN table[code + 1] ELSE 255

\* variant: the range test admits every 7-bit key code
Set1InRange_any(code) == code < 128

\* scancode_set1_to_ascii: if (code < 0x3A)
Set1InRange(code) == code < TABLE_SIZE

\* variant: the shift argument is ignored
scancode_set1_to_ascii_lower(code, shift) ==
    IF Set1InRange(code)
    THEN [ch |-> TableAt(unshifted, code), idx |-> code]
    ELSE [ch |-> 0, idx |-> NoIndex]

\* scancode_set1_to_ascii(code, shift): the character and the subscript used
scancode_set1_to_ascii(code, shift) ==
    IF Set1InRange(code)
    THEN [ch |-> TableAt(IF shift THEN shifted ELSE unshifted, code), idx |-> code]
    ELSE [ch |-> 0, idx |-> NoIndex]

DecSt(s, e, l) ==
    [shift_pressed |-> s, expecting_break_code |-> e, last_scan_code |-> l]

\* what one call of scancode_to_char leaves: statics, return value, subscript
DecRet(st, ch, idx) == [st |-> st, ch |-> ch, idx |-> idx]

\* variant: the byte after 0xF0 is dropped but the flag stays set
BreakContinuation_kept(st) == DecRet(st, 0, NoIndex)

\* scancode_to_char: if (expecting_break_code) { ... = false; return 0; }
BreakContinuation(st) ==
    DecRet([st EXCEPT !.expecting_break_code = FALSE], 0, NoIndex)

\* variant: the backspace override returns DEL
PressChar_del(key_code, shift) ==
    IF key_code = KEY_SPACE THEN [ch |-> 32, idx |-> NoIndex]
    ELSE IF key_code = KEY_ENTER THEN [ch |-> 10, idx |-> NoIndex]
    ELSE IF key_code = KEY_BACKSPACE THEN [ch |-> 127, idx |-> NoIndex]
    ELSE scancode_set1_to_ascii(key_code, shift)

\* scancode_to_char: the three explicit keys, then the set-1 table
PressChar(key_code, shift) ==
    IF key_code = KEY_SPACE THEN [ch |-> 32, idx |-> NoIndex]
    ELSE IF key_code = KEY_ENTER THEN [ch |-> 10, idx |-> NoIndex]
    ELSE IF key_code = KEY_BACKSPACE THEN [ch |-> 8, idx |-> NoIndex]
    ELSE scancode_set1_to_ascii(key_code, shift)

\* variant: only the left shift key drives the flag
DecodeKey_left(st, scan_code) ==
    LET released == Bit(scan_code, 7) = 1
        key_code == scan_code % 128
    IN  IF key_code = LEFT_SHIFT
        THEN DecRet([st EXCEPT !.shift_pressed = ~released], 0, NoIndex)
        ELSE IF released THEN DecRet(st, 0, NoIndex)
        ELSE LET r == PressChar(key_code, st.shift_pressed)
             IN  DecRet(st, r.ch, r.idx)

\* variant: a byte that follows a recorded 0xE0 is swallowed with the prefix
DecodeKey_ext(st, scan_code) ==
    LET released == Bit(scan_code, 7) = 1
        key_code == scan_code % 128
    IN  IF st.last_scan_code = EXT_PREFIX
        THEN DecRet([st EXCEPT !.last_scan_code = 0], 0, NoIndex)
        ELSE IF key_code = LEFT_SHIFT \/ key_code = RIGHT_SHIFT
        THEN DecRet([st EXCEPT !.shift_pressed = ~released], 0, NoIndex)
        ELSE IF released THEN DecRet(st, 0, NoIndex)
        ELSE LET r == PressChar(key_code, st.shift_pressed)
             IN  DecRet(st, r.ch, r.idx)

\* scancode_to_char from "bool released = ..." on: shift keys, releases, presses
DecodeKey(st, scan_code) ==
    LET released == Bit(scan_code, 7) = 1
        key_code == scan_code % 128
    IN  IF key_code = LEFT_SHIFT \/ key_code = RIGHT_SHIFT
        THEN DecRet([st EXCEPT !.shift_pressed = ~released], 0, NoIndex)
        ELSE IF released THEN DecRet(st, 0, NoIndex)
        ELSE LET r == PressChar(key_code, st.shift_pressed)
             IN  DecRet(st, r.ch, r.idx)

\* scancode_to_char(scan_code) run on the statics st
scancode_to_char(st, scan_code) ==
    IF scan_code = EXT_PREFIX
    THEN DecRet([st EXCEPT !.last_scan_code = EXT_PREFIX], 0, NoIndex)
    ELSE IF scan_code = BREAK_PREFIX
    THEN DecRet([st EXCEPT !.expecting_break_code = TRUE], 0, NoIndex)
    ELSE IF st.expecting_break_code
    THEN BreakContinuation(st)
    ELSE DecodeKey(st, scan_code)

\* the statics as initialised, and as init_keyboard resets them
DecReset == DecSt(FALSE, FALSE, 0)

\* no byte decoded yet
NoDecode ==
    [n |-> 0, pre2 |-> DecReset, b1 |-> 0, ch1 |-> 0,
     pre |-> DecReset, b |-> 0, ch |-> 0, idx |-> NoIndex,
     shift_byte |-> "none", latch |-> "none"]

DecoderInit ==
    /\ shift_pressed = DecReset.shift_pressed
    /\ expecting_break_code = DecReset.expecting_break_code
    /\ last_scan_code = DecReset.last_scan_code
    /\ dec_hist = NoDecode

\* ---------------------------------------------------------- RTC reader
\* raw register contents: status B, the six time fields, the century register
Raw(b, s, mi, h, d, mo, y, c) ==
    [status_b |-> b, second |-> s, minute |-> mi, hour |-> h, day |-> d,
     month |-> mo, year |-> y, century |-> c]

\* register contents the RTC may hold when get_rtc_time is called
RtcScenarios ==
    { Raw(2, 89, 89, 35, 49, 18, 153, 32),   \* BCD 24h  99-12-31 23:59:59, century 0x20
      Raw(2, 0, 48, 34, 40, 2, 36, 32),      \* BCD 24h  24-02-28 22:30:00
      Raw(2, 0, 48, 34, 40, 2, 35, 25),      \* BCD 24h  23-02-28 22:30:00, century 0x19
      Raw(2, 18, 0, 35, 48, 4, 36, 33),      \* BCD 24h  24-04-30 23:00:18, century 0x21
      Raw(2, 35, 69, 16, 21, 6, 36, 255),    \* BCD 24h  24-06-15 10:45:23, no century
      Raw(6, 35, 59, 21, 31, 1, 24, 20),     \* binary 24h 24-01-31 21:59:35
      Raw(6, 0, 0, 22, 31, 12, 99, 0),       \* binary 24h 99-12-31 22:00:00, century 0
      Raw(6, 0, 0, 23, 31, 1, 24, 20),       \* binary 24h 24-01-31 23:00:00
      Raw(2, 0, 0, 35, 49, 18, 36, 32),      \* BCD 24h  24-12-31 23:00:00
      Raw(0, 0, 0, 133, 1, 1, 36, 32),       \* BCD 12h  5 PM
      Raw(4, 0, 0, 140, 1, 1, 24, 20),       \* binary 12h 12 PM
      Raw(0, 0, 0, 18, 1, 1, 36, 32),        \* BCD 12h  12 AM
      Raw(4, 0, 0, 5, 1, 1, 24, 20),         \* binary 12h 5 AM
      Raw(2, 96, 0, 0, 1, 1, 0, 32),         \* second 60
      Raw(2, 0, 96, 0, 1, 1, 0, 32),         \* minute 60
      Raw(2, 0, 0, 36, 1, 1, 0, 32),         \* hour 24
      Raw(2, 0, 0, 0, 0, 1, 0, 32),          \* day 0
      Raw(6, 0, 0, 0, 32, 1, 0, 20),         \* day 32
      Raw(6, 0, 0, 0, 1, 0, 0, 20),          \* month 0
      Raw(2, 0, 0, 0, 1, 19, 0, 32),         \* month 13
      Raw(6, 0, 0, 0, 1, 1, 100, 20) }       \* year 100

\* the registers in the order get_rtc_time reads them
FieldRegs == <<RTC_SECONDS, RTC_MINUTES, RTC_HOURS, RTC_DAY, RTC_MONTH, RTC_YEAR>>

\* the chip: register file, update-in-progress bit, completed update cycles
CmosOf(sc, uip) ==
    [regs |-> (RTC_SECONDS :> sc.second) @@ (RTC_MINUTES :> sc.minute) @@
              (RTC_HOURS :> sc.hour) @@ (RTC_DAY :> sc.day) @@
              (RTC_MONTH :> sc.month) @@ (RTC_YEAR :> sc.year) @@
              (RTC_CENTURY :> sc.century) @@ (RTC_STATUS_B :> sc.status_b),
     uip |-> uip, updates |-> 0]

\* read_rtc_register(reg): select with NMI masked, then read the data port;
\* status A carries the update bit over the rate-selection bits
read_rtc_register(c, reg) ==
    IF reg = RTC_STATUS_A THEN (IF c.uip THEN RTC_A_UIP ELSE 0) + 38
    ELSE c.regs[reg]

\* variant: the high nibble is taken modulo 8
bcd_to_binary_masked(bcd) == (((bcd \div 16) % 8) * 10 + (bcd % 16)) % 256

\* bcd_to_binary
bcd_to_binary(bcd) == ((bcd \div 16) * 10 + (bcd % 16)) % 256

\* is_bcd: DM bit of status B clear
IsBcd(status_b) == Bit(status_b, 2) = 0
\* is_24hour: 24/12 bit of status B set
Is24Hour(status_b) == Bit(status_b, 1) = 1

\* the six values of one read, as a record
FieldsOf(r) ==
    [second |-> r[1], minute |-> r[2], hour |-> r[3], day |-> r[4],
     month |-> r[5], year |-> r[6]]

\* get_rtc_time: if (is_bcd) { second = bcd_to_binary(second); ... }
ToBinary(status_b, f) ==
    IF IsBcd(status_b)
    THEN [second |-> bcd_to_binary(f.second), minute |-> bcd_to_binary(f.minute),
          hour |-> bcd_to_binary(f.hour), day |-> bcd_to_binary(f.day),
          month |-> bcd_to_binary(f.month), year |-> bcd_to_binary(f.year)]
    ELSE f

\* variant: the year is not validated
OutOfRange_anyyear(f) ==
    \/ f.second > 59 \/ f.minute > 59 \/ f.hour > 23
    \/ f.day < 1 \/ f.day > 31 \/ f.month < 1 \/ f.month > 12

\* get_rtc_time: the range validation that makes it return false
OutOfRange(f) ==
    \/ f.second > 59 \/ f.minute > 59 \/ f.hour > 23
    \/ f.day < 1 \/ f.day > 31 \/ f.month < 1 \/ f.month > 12 \/ f.year > 99

\* get_rtc_time: 12-hour to 24-hour conversion of the validated hour
Hour24(status_b, hour) ==
    IF Is24Hour(status_b) THEN hour
    ELSE LET hour_12 == hour % 128
         IN  IF Bit(hour, 7) = 1
             THEN (IF hour_12 = 12 THEN 12 ELSE (hour_12 + 12) % 256)
             ELSE (IF hour_12 = 12 THEN 0 ELSE hour_12)

\* variant: a converted century outside 19 / 20 is passed on
CenturyOf_raw(status_b, century_reg) ==
    IF century_reg # 255 /\ century_reg # 0
    THEN (IF IsBcd(status_b) THEN bcd_to_binary(century_reg) ELSE century_reg)
    ELSE 0

\* get_rtc_time: the century register, 0 when absent or not 19 / 20
CenturyOf(status_b, century_reg) ==
    IF century_reg # 255 /\ century_reg # 0
    THEN LET century == IF IsBcd(status_b) THEN bcd_to_binary(century_reg)
                        ELSE century_reg
         IN  IF century # 19 /\ century # 20 THEN 0 ELSE century
    ELSE 0

\* variant: February always has 28 days
DaysInMonth_noleap(month, year) ==
    IF month = 2 THEN 28
    ELSE IF month \in {4, 6, 9, 11} THEN 30
    ELSE 31

\* get_rtc_time: days_in_month with the year % 4 leap rule
DaysInMonth(month, year) ==
    IF month = 2 THEN (IF year % 4 = 0 THEN 29 ELSE 28)
    ELSE IF month \in {4, 6, 9, 11} THEN 30
    ELSE 31

\* get_rtc_time: hour += RTC_TIMEZONE_OFFSET with day, month, year and century
\* rollover; f has the 24-hour hour
ApplyTimezone(f, century) ==
    LET hour == (f.hour + RTC_TIMEZONE_OFFSET) % 256
    IN  IF hour < 24 THEN [f EXCEPT !.hour = hour] @@ [century |-> century]
        ELSE LET day == (f.day + 1) % 256
                 h == hour - 24
             IN  IF day <= DaysInMonth(f.month, f.year)
                 THEN [f EXCEPT !.hour = h, !.day = day] @@ [century |-> century]
                 ELSE LET month == (f.month + 1) % 256
                      IN  IF month <= 12
                          THEN [f EXCEPT !.hour = h, !.day = 1, !.month = month]
                               @@ [century |-> century]
                          ELSE LET year == (f.year + 1) % 256
                               IN  IF year <= 99
                                   THEN [f EXCEPT !.hour = h, !.day = 1, !.month = 1,
                                                  !.year = year]
                                        @@ [century |-> century]
                                   ELSE [f EXCEPT !.hour = h, !.day = 1, !.month = 1,
                                                  !.year = 0]
                                        @@ [century |-> IF century > 0
                                                        THEN (century + 1) % 256
                                                        ELSE century]

\* variant: the century member is left out
WriteSnapshot_six(t, v) == [v EXCEPT !.century = t.century]

\* get_rtc_time: time->second = second; ... time->century = century;
WriteSnapshot(t, v) == v

\* the caller's structure before get_rtc_time has written it
NoTime ==
    [second |-> 255, minute |-> 255, hour |-> 255, day |-> 255, month |-> 255,
     year |-> 255, century |-> 255]

\* no field converted yet
NoFields == [second |-> 0, minute |-> 0, hour |-> 0, day |-> 0, month |-> 0, year |-> 0]

\* get_rtc_time not called: position, locals, and the reads counted by register
RtcIdleLocals ==
    [at |-> "idle", null |-> FALSE, i |-> 0, status_b |-> 0, r1 |-> <<>>, r2 |-> <<>>,
     retried |-> FALSE, f |-> NoFields, hour |-> 0, century_reg |-> 0,
     n_a |-> 0, n_b |-> 0, n_f |-> 0, n_c |-> 0, waits |-> 0, result |-> "none"]

\* the RTC as the boot leaves it: the kernel never touches it before a call
RtcIdle ==
    /\ cmos = CmosOf(Raw(2, 35, 69, 16, 21, 6, 36, 32), FALSE)
    /\ rtc = RtcIdleLocals
    /\ rtc_time = NoTime

Init ==
    /\ pc = "start"
    /\ loc = LocInit
    /\ fg_log = <<>>
    /\ iflag = FALSE
    /\ halted = FALSE
    /\ idt_built = FALSE
    /\ idt_loaded = FALSE
    /\ \E m1 \in InitMasks, m2 \in InitMasks : hw = HwInit(m1, m2)
    /\ stack = <<>>
    /\ system_ticks = 0
    /\ timer_dispatches = 0
    /\ kbd_last = 0
    /\ diag = <<>>
    /\ mask_hist = NoCall
    /\ DecoderInit
    /\ RtcIdle

\* foreground code executes only while no interrupt frame is active
Fg == ~halted /\ stack = <<>>
\* value a port read returns (the keyboard data port is read in irq_handler)
HwIn(h, port) ==
    CASE port = PIC1_DATA -> h.pic1_mask
      [] port = PIC2_DATA -> h.pic2_mask
      [] OTHER -> 0

\* ------------------------------------------------- straight-line routines
Imm(port, val) == [op |-> "out", port |-> port, src |-> "imm", val |-> val]
Rd(port, dst) == [op |-> "in", port |-> port, src |-> dst, val |-> 0]
Flag(what) == [op |-> what, port |-> 0, src |-> "imm", val |-> 0]

\* variant: ICW4 of the secondary controller written after the masks
init_pic_ops_mask_early ==
    << Rd(PIC1_DATA, "a1"),
       Rd(PIC2_DATA, "a2"),
       Imm(PIC1_COMMAND, PIC_ICW1_INIT + PIC_ICW1_ICW4),
       Imm(PIC2_COMMAND, PIC_ICW1_INIT + PIC_ICW1_ICW4),
       Imm(PIC1_DATA, IRQ_BASE),
       Imm(PIC2_DATA, IRQ_BASE + 8),
       Imm(PIC1_DATA, 4),
       Imm(PIC2_DATA, 2),
       Imm(PIC1_DATA, PIC_ICW4_8086),
       Imm(PIC1_DATA, 252),
       Imm(PIC2_DATA, PIC_ICW4_8086),
       Imm(PIC2_DATA, 255) >>

\* variant: the saved masks a1, a2 written back, as the comment "restore" says
init_pic_ops_restore ==
    << Rd(PIC1_DATA, "a1"),
       Rd(PIC2_DATA, "a2"),
       Imm(PIC1_COMMAND, PIC_ICW1_INIT + PIC_ICW1_ICW4),
       Imm(PIC2_COMMAND, PIC_ICW1_INIT + PIC_ICW1_ICW4),
       Imm(PIC1_DATA, IRQ_BASE),
       Imm(PIC2_DATA, IRQ_BASE + 8),
       Imm(PIC1_DATA, 4),
       Imm(PIC2_DATA, 2),
       Imm(PIC1_DATA, PIC_ICW4_8086),
       Imm(PIC2_DATA, PIC_ICW4_8086),
       [op |-> "out", port |-> PIC1_DATA, src |-> "a1", val |-> 0],
       [op |-> "out", port |-> PIC2_DATA, src |-> "a2", val |-> 0] >>

init_pic_ops ==
    << Rd(PIC1_DATA, "a1"),
       Rd(PIC2_DATA, "a2"),
       Imm(PIC1_COMMAND, PIC_ICW1_INIT + PIC_ICW1_ICW4),
       Imm(PIC2_COMMAND, PIC_ICW1_INIT + PIC_ICW1_ICW4),
       Imm(PIC1_DATA, IRQ_BASE),
       Imm(PIC2_DATA, IRQ_BASE + 8),
       Imm(PIC1_DATA, 4),
       Imm(PIC2_DATA, 2),
       Imm(PIC1_DATA, PIC_ICW4_8086),
       Imm(PIC2_DATA, PIC_ICW4_8086),
       Imm(PIC1_DATA, 252),
       Imm(PIC2_DATA, 255) >>

\* uint16_t parameter: the argument is truncated to 16 bits at the call
ClampFrequency(frequency) ==
    LET f == frequency % 65536
        f1 == IF f < 19 THEN 19 ELSE f
    IN  IF f1 > PIT_BASE_FREQUENCY THEN PIT_BASE_FREQUENCY ELSE f1

PitDivisor(frequency) == (PIT_BASE_FREQUENCY \div ClampFrequency(frequency)) % 65536

\* variant: the port sequence without the leading disable_interrupts()
set_pit_frequency_ops_open(divisor) ==
    << Imm(PIT_COMMAND, 54),
       Imm(PIT_CH0_DATA, divisor % 256),
       Imm(PIT_CH0_DATA, (divisor \div 256) % 256),
       Flag("sti") >>

set_pit_frequency_ops(divisor) ==
    << Flag("cli"),
       Imm(PIT_COMMAND, 54),
       Imm(PIT_CH0_DATA, divisor % 256),
       Imm(PIT_CH0_DATA, (divisor \div 256) % 256),
       Flag("sti") >>

Routine(name, l) ==
    IF name = "init_pic" THEN init_pic_ops ELSE set_pit_frequency_ops(l.divisor)

OpVal(o, l) == IF o.src = "imm" THEN o.val ELSE l[o.src]

\* one instruction of init_pic or set_pit_frequency
RoutineStep ==
    /\ Fg
    /\ pc \in {"init_pic", "set_pit_frequency"}
    /\ LET ops == Routine(pc, loc)
           o == ops[loc.i]
           nxt == IF loc.i = Len(ops) THEN "ret" ELSE pc
       IN  /\ pc' = nxt
           /\ CASE o.op = "in" ->
                    /\ loc' = [loc EXCEPT ![o.src] = HwIn(hw, o.port), !.i = @ + 1]
                    /\ fg_log' = Append(fg_log, In(o.port, HwIn(hw, o.port)))
                    /\ UNCHANGED <<hw, iflag>>
                [] o.op = "out" ->
                    /\ loc' = [loc EXCEPT !.i = @ + 1]
                    /\ fg_log' = Append(fg_log, Out(o.port, OpVal(o, loc)))
                    /\ hw' = HwOut(hw, o.port, OpVal(o, loc))
                    /\ UNCHANGED iflag
                [] OTHER ->
                    /\ loc' = [loc EXCEPT !.i = @ + 1]
                    /\ fg_log' = Append(fg_log, Note(o.op, 0))
                    /\ iflag' = (o.op = "sti")
                    /\ UNCHANGED hw
    /\ UNCHANGED <<halted, idt_built, idt_loaded, stack, system_ticks,
                   timer_dispatches, kbd_last, diag, mask_hist, decoder, rtc_vars>>

\* a foreground routine returns to its caller
Return ==
    /\ Fg
    /\ pc = "ret"
    /\ pc' = loc.ret
    /\ loc' = LocInit
    /\ fg_log' = <<>>
    /\ UNCHANGED <<iflag, halted, idt_built, idt_loaded, hw, stack, system_ticks,
                   timer_dispatches, kbd_last, diag, mask_hist, decoder, rtc_vars>>

\* ------------------------------------------------------------ boot sequence
\* _start: cli
Start ==
    /\ Fg
    /\ pc = "start"
    /\ iflag' = FALSE
    /\ pc' = "init_idt"
    /\ UNCHANGED <<loc, fg_log, halted, idt_built, idt_loaded, hw, stack,
                   system_ticks, timer_dispatches, kbd_last, diag, mask_hist, decoder, rtc_vars>>

\* _start: call init_idt
InitIdt ==
    /\ Fg
    /\ pc = "init_idt"
    /\ idt_built' = TRUE
    /\ pc' = "lidt"
    /\ UNCHANGED <<loc, fg_log, iflag, halted, idt_loaded, hw, stack,
                   system_ticks, timer_dispatches, kbd_last, diag, mask_hist, decoder, rtc_vars>>

\* _start: lidt, call kernel_main; kernel_main phase 4 calls init_pic
LoadIdt ==
    /\ Fg
    /\ pc = "lidt"
    /\ idt_loaded' = TRUE
    /\ pc' = "init_pic"
    /\ loc' = [LocInit EXCEPT !.fn = "init_pic", !.i = 1, !.ret = "init_pit"]
    /\ fg_log' = <<>>
    /\ UNCHANGED <<iflag, halted, idt_built, hw, stack, system_ticks,
                   timer_dispatches, kbd_last, diag, mask_hist, decoder, rtc_vars>>

\* entry of set_pit_frequency(frequency), returning to label ret
CallSetPit(frequency, ret) ==
    /\ pc' = "set_pit_frequency"
    /\ loc' = [LocInit EXCEPT !.fn = "set_pit_frequency", !.i = 1, !.ret = ret,
                              !.divisor = PitDivisor(frequency),
                              !.frequency = frequency, !.if_call = iflag]
    /\ fg_log' = <<>>
    /\ UNCHANGED <<iflag, halted, idt_built, idt_loaded, hw, stack, system_ticks,
                   timer_dispatches, kbd_last, diag, mask_hist, decoder, rtc_vars>>

\* kernel_main phase 4: init_pit()
InitPit ==
    /\ Fg
    /\ pc = "init_pit"
    /\ CallSetPit(PIT_DEFAULT_FREQUENCY, "kbd_init")

\* kernel_main phase 5: keyboard.init(); init_keyboard()
KbdInit ==
    /\ Fg
    /\ pc = "kbd_init"
    /\ kbd_last' = 0
    /\ pc' = "sti"
    /\ UNCHANGED <<loc, fg_log, iflag, halted, idt_built, idt_loaded, hw, stack,
                   system_ticks, timer_dispatches, diag, mask_hist, decoder, rtc_vars>>

\* kernel_main phase 6: enable_interrupts()
EnableInterrupts ==
    /\ Fg
    /\ pc = "sti"
    /\ iflag' = TRUE
    /\ pc' = "run"
    /\ UNCHANGED <<loc, fg_log, halted, idt_built, idt_loaded, hw, stack,
                   system_ticks, timer_dispatches, kbd_last, diag, mask_hist, decoder, rtc_vars>>

\* ----------------------------------------------- foreground API operations
SetPitFrequency ==
    /\ Fg
    /\ pc = "run"
    /\ \E f \in FreqArgs : CallSetPit(f, "run")
\* the two 32-bit halves of the 64-bit counter (scaled to WordMod)
LoHalf(x) == x % WordMod
HiHalf(x) == (x \div WordMod) % WordMod

\* get_ticks(): called; the compiler emits two 32-bit loads in either order
CallGetTicks ==
    /\ Fg
    /\ pc = "run"
    /\ \E first \in {"lo", "hi"} :
          loc' = [LocInit EXCEPT !.fn = "get_ticks", !.i = 1, !.first = first,
                                 !.start = system_ticks]
    /\ pc' = "get_ticks"
    /\ fg_log' = <<>>
    /\ UNCHANGED <<iflag, halted, idt_built, idt_loaded, hw, stack, system_ticks,
                   timer_dispatches, kbd_last, diag, mask_hist, decoder, rtc_vars>>

\* get_ticks(): one 32-bit load of system_ticks; after the second, the return
GetTicksLoad ==
    /\ Fg
    /\ pc = "get_ticks"
    /\ LET half == IF loc.i = 1 THEN loc.first
                   ELSE IF loc.first = "lo" THEN "hi" ELSE "lo"
           l1 == IF half = "lo" THEN [loc EXCEPT !.lo = LoHalf(system_ticks)]
                 ELSE [loc EXCEPT !.hi = HiHalf(system_ticks)]
       IN  IF loc.i = 1
           THEN /\ loc' = [l1 EXCEPT !.i = 2]
                /\ pc' = pc
           ELSE /\ loc' = [l1 EXCEPT !.i = 3, !.result = l1.hi * WordMod + l1.lo]
                /\ pc' = "ret"
    /\ UNCHANGED <<fg_log, iflag, halted, idt_built, idt_loaded, hw, stack,
                   system_ticks, timer_dispatches, kbd_last, diag, mask_hist, decoder, rtc_vars>>

\* variant: the range check off by one
InvalidIrq_above16(irq) == irq > 16

\* enable_irq / disable_irq: if (irq > 15) return
InvalidIrq(irq) == irq > 15

\* enable_irq(irq) / disable_irq(irq): range check and port selection
MaskCall(fn, irq) ==
    /\ Fg
    /\ pc = "run"
    /\ IF InvalidIrq(irq)
       THEN /\ pc' = "ret"
            /\ loc' = [LocInit EXCEPT !.fn = fn]
       ELSE /\ pc' = "mask_read"
            /\ loc' = [LocInit EXCEPT !.fn = fn,
                          !.port = IF irq < 8 THEN PIC1_DATA ELSE PIC2_DATA,
                          !.irq = IF irq < 8 THEN irq ELSE irq - 8]
    /\ fg_log' = <<>>
    /\ UNCHANGED <<iflag, halted, idt_built, idt_loaded, hw, stack, system_ticks,
                   timer_dispatches, kbd_last, diag>>

CallMaskIrq ==
    /\ \E fn \in {"enable_irq", "disable_irq"}, irq \in LineArgs : MaskCall(fn, irq)
    /\ UNCHANGED <<mask_hist, decoder, rtc_vars>>

\* enable_irq / disable_irq: inb of the current mask
MaskRead ==
    /\ Fg
    /\ pc = "mask_read"
    /\ loc' = [loc EXCEPT !.value = HwIn(hw, loc.port)]
    /\ fg_log' = Append(fg_log, In(loc.port, HwIn(hw, loc.port)))
    /\ pc' = "mask_write"
    /\ UNCHANGED <<iflag, halted, idt_built, idt_loaded, hw, stack, system_ticks,
                   timer_dispatches, kbd_last, diag, mask_hist, decoder, rtc_vars>>

\* variant: disable_irq written as a copy of enable_irq
mask_update_copied(fn, value, irq) == ClearBit(value, irq) % 256

\* variant: the new mask built from the line alone, the value read dropped
mask_update_fresh(fn, value, irq) ==
    IF fn = "enable_irq" THEN 255 - (Pow2(irq) % 256) ELSE Pow2(irq) % 256

\* enable_irq: value &= ~(1 << irq); disable_irq: value |= (1 << irq), in uint8_t
mask_update(fn, value, irq) ==
    (IF fn = "enable_irq" THEN ClearBit(value, irq) ELSE SetBit(value, irq)) % 256

\* enable_irq / disable_irq: update of the value read, then outb
MaskWrite ==
    /\ Fg
    /\ pc = "mask_write"
    /\ LET v == mask_update(loc.fn, loc.value, loc.irq)
       IN  /\ loc' = [loc EXCEPT !.value = v]
           /\ fg_log' = Append(fg_log, Out(loc.port, v))
           /\ hw' = HwOut(hw, loc.port, v)
    /\ pc' = "ret"
    /\ UNCHANGED <<iflag, halted, idt_built, idt_loaded, stack, system_ticks,
                   timer_dispatches, kbd_last, diag, mask_hist, decoder, rtc_vars>>

\* ------------------------------------------------------ request-line path
Top == stack[Len(stack)]
SetTop(f) == [stack EXCEPT ![Len(stack)] = f]

\* the CPU vectors through the table into trampoline irq<v>, which pushes its
\* line number; newif is the interrupt flag the trampoline runs with
IrqEnter(n, newif) ==
    /\ iflag
    /\ idt_loaded
    /\ Len(stack) < MaxNest
    /\ LineEnabled(hw, n)
    /\ n = IRQ_TIMER => timer_dispatches < MaxTicks
    /\ LET g == idt[LineVector(hw, n)]
           v == StubAt(GateOffset(g))
       IN  /\ g.type_attr = GATE_INT32
           /\ v \in 32..47
           /\ stack' = Append(stack, [kind |-> "irq", n |-> IrqStubLine(v),
                                      stage |-> "entry", saved_if |-> iflag,
                                      err |-> "dummy", log |-> <<>>])
    /\ iflag' = newif
    /\ halted' = FALSE
    /\ hw' = RaiseLine(hw, n)
    /\ timer_dispatches' = IF n = IRQ_TIMER THEN timer_dispatches + 1
                           ELSE timer_dispatches
    /\ UNCHANGED <<pc, loc, fg_log, idt_built, idt_loaded, system_ticks, kbd_last, diag,
                   mask_hist, decoder, rtc_vars>>

\* variant: a trap gate and no cli, the flag stays as the foreground had it
IrqEntry_flag_kept(n) == IrqEnter(n, iflag)

\* interrupt gate 0x8E and the trampoline's cli: the flag is clear in the handler
IrqEntry(n) == IrqEnter(n, FALSE)

\* keyboard.handle_interrupt(scan_code): the driver takes the byte
handle_interrupt(scan_code) == scan_code

DoOut(st, port, val) ==
    [st EXCEPT !.hw = HwOut(@, port, val), !.log = Append(@, Out(port, val))]

\* variant: the primary acknowledge placed in the else branch
send_eoi_else(irq, st) ==
    IF irq >= 8 THEN DoOut(st, PIC2_COMMAND, PIC_EOI)
    ELSE DoOut(st, PIC1_COMMAND, PIC_EOI)

send_eoi(irq, st) ==
    LET s1 == IF irq >= 8 THEN DoOut(st, PIC2_COMMAND, PIC_EOI) ELSE st
    IN  DoOut(s1, PIC1_COMMAND, PIC_EOI)

\* variant: the default case drains the keyboard data port
irq_dispatch_default_drains(irq, scan_code, st) ==
    CASE irq = IRQ_TIMER ->
            [st EXCEPT !.ticks = (@ + 1) % (WordMod * WordMod),
                       !.log = Append(@, Note("tick", 1))]
      [] irq = IRQ_KEYBOARD ->
            [st EXCEPT !.kbd = handle_interrupt(scan_code),
                       !.log = @ \o <<In(KBD_DATA_PORT, scan_code),
                                      Note("handle_interrupt", scan_code)>>]
      [] OTHER -> [st EXCEPT !.log = Append(@, In(KBD_DATA_PORT, scan_code))]

\* variant: the timer case also taken by lines without an owning driver
irq_dispatch_default_ticks(irq, scan_code, st) ==
    IF irq = IRQ_KEYBOARD
    THEN [st EXCEPT !.kbd = handle_interrupt(scan_code),
                    !.log = @ \o <<In(KBD_DATA_PORT, scan_code),
                                   Note("handle_interrupt", scan_code)>>]
    ELSE [st EXCEPT !.ticks = (@ + 1) % (WordMod * WordMod),
                    !.log = Append(@, Note("tick", 1))]

\* the switch of irq_handler; scan_code is the byte the keyboard data port holds
irq_dispatch(irq, scan_code, st) ==
    CASE irq = IRQ_TIMER ->
            [st EXCEPT !.ticks = (@ + 1) % (WordMod * WordMod),
                       !.log = Append(@, Note("tick", 1))]
      [] irq = IRQ_KEYBOARD ->
            [st EXCEPT !.kbd = handle_interrupt(scan_code),
                       !.log = @ \o <<In(KBD_DATA_PORT, scan_code),
                                      Note("handle_interrupt", scan_code)>>]
      [] OTHER -> st

\* variant: acknowledge first, then the device work
irq_handler_eoi_first(irq, scan_code, st) ==
    irq_dispatch(irq, scan_code, send_eoi(irq, st))

\* variant: the default case returns instead of breaking to send_eoi
irq_handler_default_returns(irq, scan_code, st) ==
    IF irq \in {IRQ_TIMER, IRQ_KEYBOARD}
    THEN send_eoi(irq, irq_dispatch(irq, scan_code, st))
    ELSE st

\* irq_handler(irq): the switch, then send_eoi(irq)
irq_handler(irq, scan_code, st) ==
    send_eoi(irq, irq_dispatch(irq, scan_code, st))

\* irq_common_stub: call irq_handler
IrqHandler ==
    /\ ~halted
    /\ stack # <<>>
    /\ Top.kind = "irq"
    /\ Top.stage = "entry"
    /\ \E scan_code \in ScanCodes :
          LET r == irq_handler(Top.n, scan_code,
                               [ticks |-> system_ticks, kbd |-> kbd_last,
                                hw |-> hw, log |-> <<>>])
          IN  /\ system_ticks' = r.ticks
              /\ kbd_last' = r.kbd
              /\ hw' = r.hw
              /\ stack' = SetTop([Top EXCEPT !.stage = "returned", !.log = r.log])
    /\ UNCHANGED <<pc, loc, fg_log, iflag, halted, idt_built, idt_loaded,
                   timer_dispatches, diag, mask_hist, decoder, rtc_vars>>

\* irq_common_stub: restore registers, iret (EFLAGS restored)
IrqIret ==
    /\ ~halted
    /\ stack # <<>>
    /\ Top.kind = "irq"
    /\ Top.stage = "returned"
    /\ iflag' = Top.saved_if
    /\ stack' = Front(stack)
    /\ UNCHANGED <<pc, loc, fg_log, halted, idt_built, idt_loaded, hw, system_ticks,
                   timer_dispatches, kbd_last, diag, mask_hist, decoder, rtc_vars>>

\* --------------------------------------------------------- exception path
Line(what, v) == [line |-> what, v |-> v]

\* vectors for which exception_handler prints the error-code line
ErrCodeReported(vector) ==
    vector = 8 \/ (vector >= 10 /\ vector <= 14) \/ vector = 17 \/ vector = 21

\* the report part of exception_handler, in program order
exception_report(vector) ==
    <<Line("banner", vector)>>
    \o (IF vector < 32 THEN <<Line("name", vector)>> ELSE <<>>)
    \o <<Line("vector", vector)>>
    \o (IF ErrCodeReported(vector) THEN <<Line("error_code", vector)>> ELSE <<>>)
    \o <<Line("footer", vector)>>

\* variant: the halt test written as vector < 14
exception_handler_halt_below(vector) ==
    exception_report(vector)
    \o (IF vector < PAGE_FAULT
        THEN <<Line("halted_msg", vector), Line("cli_hlt", vector)>>
        ELSE <<>>)

\* exception_handler(vector, error_code): its effects, in program order
exception_handler(vector) ==
    exception_report(vector)
    \o (IF vector # PAGE_FAULT
        THEN <<Line("halted_msg", vector), Line("cli_hlt", vector)>>
        ELSE <<>>)

\* position of the first cli;hlt in an effect sequence, 0 if none
HaltPos(tr) ==
    IF \E i \in 1..Len(tr) : tr[i].line = "cli_hlt"
    THEN CHOOSE i \in 1..Len(tr) :
            /\ tr[i].line = "cli_hlt"
            /\ \A j \in 1..(i - 1) : tr[j].line # "cli_hlt"
    ELSE 0

\* a faulting instruction of foreground code outside the routines modelled
\* here vectors through the table into trampoline isr<v>; the non-maskable
\* interrupt is also delivered to a processor stopped by hlt and wakes it
ExcEntry(v) ==
    /\ idt_loaded
    /\ Len(stack) < MaxNest
    /\ \/ Fg /\ pc \in {"kbd_init", "run"}
       \/ halted /\ v = NMI
    /\ LET g == idt[v]
           s == StubAt(GateOffset(g))
       IN  /\ g.type_attr = GATE_INT32
           /\ s \in 0..31
           /\ stack' = Append(stack, [kind |-> "exc", n |-> s, stage |-> "entry",
                                      saved_if |-> iflag,
                                      err |-> IF StubTakesErrCode(s) THEN "cpu"
                                              ELSE "dummy",
                                      log |-> <<>>])
    /\ iflag' = FALSE
    /\ halted' = FALSE
    /\ UNCHANGED <<pc, loc, fg_log, idt_built, idt_loaded, hw, system_ticks,
                   timer_dispatches, kbd_last, diag, mask_hist, decoder, rtc_vars>>

\* isr_common_stub: call exception_handler
ExcHandler ==
    /\ ~halted
    /\ stack # <<>>
    /\ Top.kind = "exc"
    /\ Top.stage = "entry"
    /\ LET tr == exception_handler(Top.n)
           h == HaltPos(tr)
       IN  IF h = 0
           THEN /\ diag' = tr
                /\ stack' = SetTop([Top EXCEPT !.stage = "returned"])
                /\ UNCHANGED <<halted, iflag>>
           ELSE /\ diag' = SubSeq(tr, 1, h - 1)
                /\ stack' = SetTop([Top EXCEPT !.stage = "halted"])
                /\ halted' = TRUE
                /\ iflag' = FALSE
    /\ UNCHANGED <<pc, loc, fg_log, idt_built, idt_loaded, hw, system_ticks,
                   timer_dispatches, kbd_last, mask_hist, decoder, rtc_vars>>

\* isr_common_stub: restore registers, iret
ExcIret ==
    /\ ~halted
    /\ stack # <<>>
    /\ Top.kind = "exc"
    /\ Top.stage = "returned"
    /\ iflag' = Top.saved_if
    /\ stack' = Front(stack)
    /\ UNCHANGED <<pc, loc, fg_log, halted, idt_built, idt_loaded, hw, system_ticks,
                   timer_dispatches, kbd_last, diag, mask_hist, decoder, rtc_vars>>

\* ------------------------------------------------------------ specification
Next ==
    \/ Start
    \/ InitIdt
    \/ LoadIdt
    \/ RoutineStep
    \/ Return
    \/ InitPit
    \/ KbdInit
    \/ EnableInterrupts
    \/ SetPitFrequency
    \/ CallGetTicks
    \/ GetTicksLoad
    \/ CallMaskIrq
    \/ MaskRead
    \/ MaskWrite
    \/ \E n \in 0..15 : IrqEntry(n)
    \/ IrqHandler
    \/ IrqIret
    \/ \E v \in 0..31 : ExcEntry(v)
    \/ ExcHandler
    \/ ExcIret

Spec == Init /\ [][Next]_vars

\* the CPU keeps executing the handler it has entered
FairSpec == Spec /\ WF_vars(IrqHandler) /\ WF_vars(IrqIret)

\* ------------------------------------------- the kernel API after the boot
\* registers after a straight-line routine has run to its end
RECURSIVE RunOps(_, _, _, _)
RunOps(h, l, ops, i) ==
    IF i > Len(ops) THEN h
    ELSE LET o == ops[i]
         IN  CASE o.op = "in" ->
                    RunOps(h, [l EXCEPT ![o.src] = HwIn(h, o.port)], ops, i + 1)
               [] o.op = "out" ->
                    RunOps(HwOut(h, o.port, OpVal(o, l)), l, ops, i + 1)
               [] OTHER -> RunOps(h, l, ops, i + 1)

\* kernel_main phase 4 from firmware masks m1, m2: init_pic(); init_pit()
BootedHw(m1, m2) ==
    RunOps(RunOps(HwInit(m1, m2), LocInit, init_pic_ops, 1), LocInit,
           set_pit_frequency_ops(PitDivisor(PIT_DEFAULT_FREQUENCY)), 1)

\* kernel_main on entry to its event loop, before the first interrupt
ApiCore ==
    /\ pc = "run"
    /\ loc = LocInit
    /\ fg_log = <<>>
    /\ iflag = TRUE
    /\ halted = FALSE
    /\ idt_built = TRUE
    /\ idt_loaded = TRUE
    /\ \E m1 \in InitMasks, m2 \in InitMasks : hw = BootedHw(m1, m2)
    /\ stack = <<>>
    /\ system_ticks = 0
    /\ timer_dispatches = 0
    /\ kbd_last = 0
    /\ diag = <<>>
    /\ mask_hist = NoCall
    /\ DecoderInit

ApiInit == ApiCore /\ RtcIdle

\* mask bit of line n in the pair of mask registers m1 (primary), m2 (secondary)
LineBit(m1, m2, n) == IF n < 8 THEN Bit(m1, n) ELSE Bit(m2, n - 8)

\* arguments (uint8_t) a caller passes to enable_irq / disable_irq
MaskLines == {0, 7, 8, 15, 16, 255}

\* a caller of enable_irq / disable_irq that notes the masks it saw at the
\* call and, when it disables the line it has just enabled, the bit that line
\* had before the enable
CallMaskIrqNoted ==
    \E fn \in {"enable_irq", "disable_irq"}, irq \in MaskLines :
        /\ MaskCall(fn, irq)
        /\ mask_hist' =
              [fn |-> fn, irq |-> irq, m1 |-> hw.pic1_mask, m2 |-> hw.pic2_mask,
               en_bit |-> IF /\ fn = "disable_irq"
                             /\ mask_hist.fn = "enable_irq"
                             /\ mask_hist.irq = irq
                             /\ irq <= 15
                          THEN LineBit(mask_hist.m1, mask_hist.m2, irq)
                          ELSE 2]
        /\ UNCHANGED <<decoder, rtc_vars>>

MaskNext ==
    \/ CallMaskIrqNoted
    \/ MaskRead
    \/ MaskWrite
    \/ Return
    \/ \E n \in 0..15 : IrqEntry(n)
    \/ IrqHandler
    \/ IrqIret

MaskSpec == ApiInit /\ [][MaskNext]_vars

\* requests (an int expression at the call site) passed to set_pit_frequency
PitFreqArgs == {0, 18, 19, 100, 65535, 65536, 1193182, 2000000}

CallSetPitAny ==
    /\ Fg
    /\ pc = "run"
    /\ \E f \in PitFreqArgs : CallSetPit(f, "run")

PitNext ==
    \/ CallSetPitAny
    \/ RoutineStep
    \/ Return
    \/ \E n \in 0..15 : IrqEntry(n)
    \/ IrqHandler
    \/ IrqIret

PitSpec == ApiInit /\ [][PitNext]_vars

\* get_seconds(): (system_ticks * 10) / 182;
\* get_milliseconds(): (system_ticks * 549) / 10.  The products stay far below
\* 2^64 for every tick count a session reaches, so no reduction is applied.
Elapsed(fn, t) ==
    IF fn = "get_seconds" THEN (t * 10) \div 182 ELSE (t * 549) \div 10

ElapsedFns == {"get_seconds", "get_milliseconds"}

\* a caller invokes get_seconds() or get_milliseconds(); as in get_ticks() the
\* volatile 64-bit counter is fetched by two 32-bit loads in either order
CallElapsed ==
    /\ Fg
    /\ pc = "run"
    /\ \E fn \in ElapsedFns, first \in {"lo", "hi"} :
          loc' = [LocInit EXCEPT !.fn = fn, !.i = 1, !.first = first,
                                 !.start = system_ticks]
    /\ pc' = "elapsed"
    /\ fg_log' = <<>>
    /\ UNCHANGED <<iflag, halted, idt_built, idt_loaded, hw, stack, system_ticks,
                   timer_dispatches, kbd_last, diag, mask_hist, decoder, rtc_vars>>

\* one 32-bit load of system_ticks; after the second, the scaling and the return
ElapsedLoad ==
    /\ Fg
    /\ pc = "elapsed"
    /\ LET half == IF loc.i = 1 THEN loc.first
                   ELSE IF loc.first = "lo" THEN "hi" ELSE "lo"
           l1 == IF half = "lo" THEN [loc EXCEPT !.lo = LoHalf(system_ticks)]
                 ELSE [loc EXCEPT !.hi = HiHalf(system_ticks)]
       IN  IF loc.i = 1
           THEN /\ loc' = [l1 EXCEPT !.i = 2]
                /\ pc' = pc
           ELSE /\ loc' = [l1 EXCEPT !.i = 3,
                               !.result = Elapsed(loc.fn, l1.hi * WordMod + l1.lo)]
                /\ pc' = "ret"
    /\ UNCHANGED <<fg_log, iflag, halted, idt_built, idt_loaded, hw, stack,
                   system_ticks, timer_dispatches, kbd_last, diag, mask_hist, decoder, rtc_vars>>

ClockNext ==
    \/ CallElapsed
    \/ ElapsedLoad
    \/ CallSetPitAny
    \/ RoutineStep
    \/ Return
    \/ \E n \in 0..15 : IrqEntry(n)
    \/ IrqHandler
    \/ IrqIret

ClockSpec == ApiInit /\ [][ClockNext]_vars

\* --------------------------------------------- the decoder fed with bytes
CurDec == DecSt(shift_pressed, expecting_break_code, last_scan_code)

\* direction of a shift byte, "none" for every other byte
ShiftByte(b) ==
    IF b = LEFT_SHIFT \/ b = RIGHT_SHIFT THEN "press"
    ELSE IF b = LEFT_SHIFT + 128 \/ b = RIGHT_SHIFT + 128 THEN "release"
    ELSE "none"

\* poll_keyboard: one scan code read from the data port goes through
\* scancode_to_char
Decode(b) ==
    /\ Fg
    /\ pc = "run"
    /\ LET r == scancode_to_char(CurDec, b)
       IN  /\ shift_pressed' = r.st.shift_pressed
           /\ expecting_break_code' = r.st.expecting_break_code
           /\ last_scan_code' = r.st.last_scan_code
           /\ dec_hist' =
                 [n |-> IF dec_hist.n < 2 THEN dec_hist.n + 1 ELSE 2,
                  pre2 |-> dec_hist.pre, b1 |-> dec_hist.b, ch1 |-> dec_hist.ch,
                  pre |-> CurDec, b |-> b, ch |-> r.ch, idx |-> r.idx,
                  shift_byte |-> IF ShiftByte(b) # "none" THEN ShiftByte(b)
                                 ELSE dec_hist.shift_byte,
                  latch |-> IF ShiftByte(b) # "none" /\ ~expecting_break_code
                            THEN ShiftByte(b) ELSE dec_hist.latch]
    /\ UNCHANGED <<pc, loc, fg_log, iflag, halted, idt_built, idt_loaded, hw,
                   stack, system_ticks, timer_dispatches, kbd_last, diag, mask_hist, rtc_vars>>

\* init_keyboard: the statics are reset
ResetDecoder ==
    /\ Fg
    /\ pc = "run"
    /\ dec_hist.n > 0
    /\ shift_pressed' = FALSE
    /\ expecting_break_code' = FALSE
    /\ last_scan_code' = 0
    /\ dec_hist' = NoDecode
    /\ UNCHANGED <<pc, loc, fg_log, iflag, halted, idt_built, idt_loaded, hw,
                   stack, system_ticks, timer_dispatches, kbd_last, diag, mask_hist, rtc_vars>>

DecoderNext ==
    \/ \E b \in DecBytes : Decode(b)
    \/ ResetDecoder

DecoderSpec == ApiInit /\ [][DecoderNext]_vars

\* ------------------------------------------------- a call of get_rtc_time
\* a caller invokes get_rtc_time(time); a null pointer returns false at once
CallGetRtcTime ==
    /\ Fg
    /\ pc = "run"
    /\ rtc.at = "idle"
    /\ \E null \in BOOLEAN :
          IF null
          THEN /\ rtc' = [RtcIdleLocals EXCEPT !.at = "done", !.null = TRUE,
                                               !.result = "false"]
               /\ pc' = "ret"
          ELSE /\ rtc' = [RtcIdleLocals EXCEPT !.at = "wait1", !.waits = 1]
               /\ pc' = "get_rtc_time"
    /\ loc' = [LocInit EXCEPT !.fn = "get_rtc_time", !.ret = "run"]
    /\ fg_log' = <<>>
    /\ UNCHANGED <<iflag, halted, idt_built, idt_loaded, hw, stack, system_ticks,
                   timer_dispatches, kbd_last, diag, mask_hist, decoder, cmos,
                   rtc_time>>

\* variant: one more iteration before the wait gives up
LastPoll_late(i) == i >= MaxPolls

\* wait_rtc_update: for (int i = 0; i < 1000; i++), i being the iteration
\* that just failed
LastPoll(i) == i + 1 >= MaxPolls

\* wait_rtc_update: (status_a & RTC_A_UIP) != 0
UipSet(status_a) == Bit(status_a, 7) = 1

\* wait_rtc_update: one iteration of the poll loop; the wait returns true when
\* the bit is clear and false after the last iteration
RtcWaitPoll ==
    /\ Fg
    /\ pc = "get_rtc_time"
    /\ rtc.at \in {"wait1", "wait2"}
    /\ LET status_a == read_rtc_register(cmos, RTC_STATUS_A)
           polled == [rtc EXCEPT !.n_a = @ + 1]
       IN  IF ~UipSet(status_a)
           THEN /\ rtc' = [polled EXCEPT !.i = 0,
                              !.at = IF rtc.at = "wait1" THEN "status_b" ELSE "read3"]
                /\ pc' = pc
           ELSE IF ~LastPoll(rtc.i)
           THEN /\ rtc' = [polled EXCEPT !.i = @ + 1]
                /\ pc' = pc
           ELSE /\ rtc' = [polled EXCEPT !.i = @ + 1, !.result = "false"]
                /\ pc' = "ret"
    /\ UNCHANGED <<loc, fg_log, iflag, halted, idt_built, idt_loaded, hw, stack,
                   system_ticks, timer_dispatches, kbd_last, diag, mask_hist,
                   decoder, cmos, rtc_time>>

\* get_rtc_time: status_b = read_rtc_register(RTC_STATUS_B)
RtcReadStatusB ==
    /\ Fg
    /\ pc = "get_rtc_time"
    /\ rtc.at = "status_b"
    /\ rtc' = [rtc EXCEPT !.status_b = read_rtc_register(cmos, RTC_STATUS_B),
                          !.n_b = @ + 1, !.at = "read1"]
    /\ UNCHANGED <<pc, loc, fg_log, iflag, halted, idt_built, idt_loaded, hw, stack,
                   system_ticks, timer_dispatches, kbd_last, diag, mask_hist,
                   decoder, cmos, rtc_time>>

\* variant: the seconds are left out of the comparison
ReadsDiffer_noseconds(a, b) == SubSeq(a, 2, 6) # SubSeq(b, 2, 6)

\* get_rtc_time: second1 != second2 || minute1 != minute2 || ... || year1 != year2
ReadsDiffer(a, b) == \E k \in 1..6 : a[k] # b[k]

\* get_rtc_time: one read_rtc_register of the first, second or retry read; the
\* sixth register of the second read is followed by the comparison
RtcReadField ==
    /\ Fg
    /\ pc = "get_rtc_time"
    /\ rtc.at \in {"read1", "read2", "read3"}
    /\ LET cur == IF rtc.at = "read2" THEN rtc.r2 ELSE rtc.r1
           k == Len(cur) + 1
           nxt == Append(cur, read_rtc_register(cmos, FieldRegs[k]))
           counted == [rtc EXCEPT !.n_f = @ + 1]
       IN  rtc' =
             IF rtc.at = "read1"
             THEN [counted EXCEPT !.r1 = nxt, !.at = IF k = 6 THEN "read2" ELSE @]
             ELSE IF rtc.at = "read2"
             THEN IF k < 6 THEN [counted EXCEPT !.r2 = nxt]
                  ELSE IF ~ReadsDiffer(rtc.r1, nxt)
                  THEN [counted EXCEPT !.r2 = <<>>, !.at = "convert"]
                  ELSE [counted EXCEPT !.r1 = <<>>, !.r2 = <<>>, !.retried = TRUE,
                                       !.waits = @ + 1, !.i = 0, !.at = "wait2"]
             ELSE [counted EXCEPT !.r1 = nxt, !.at = IF k = 6 THEN "convert" ELSE @]
    /\ UNCHANGED <<pc, loc, fg_log, iflag, halted, idt_built, idt_loaded, hw, stack,
                   system_ticks, timer_dispatches, kbd_last, diag, mask_hist,
                   decoder, cmos, rtc_time>>

\* get_rtc_time: BCD conversion, range validation, 12-hour conversion and its
\* re-validation; a failure returns false
RtcConvert ==
    /\ Fg
    /\ pc = "get_rtc_time"
    /\ rtc.at = "convert"
    /\ LET f == ToBinary(rtc.status_b, FieldsOf(rtc.r1))
           hour == Hour24(rtc.status_b, f.hour)
       IN  IF OutOfRange(f) \/ hour > 23
           THEN /\ rtc' = [rtc EXCEPT !.f = f, !.result = "false"]
                /\ pc' = "ret"
           ELSE /\ rtc' = [rtc EXCEPT !.f = f, !.hour = hour, !.at = "century"]
                /\ pc' = pc
    /\ UNCHANGED <<loc, fg_log, iflag, halted, idt_built, idt_loaded, hw, stack,
                   system_ticks, timer_dispatches, kbd_last, diag, mask_hist,
                   decoder, cmos, rtc_time>>

\* get_rtc_time: the century read, the timezone offset, the structure filled in
RtcReadCentury ==
    /\ Fg
    /\ pc = "get_rtc_time"
    /\ rtc.at = "century"
    /\ LET century_reg == read_rtc_register(cmos, RTC_CENTURY)
       IN  /\ rtc' = [rtc EXCEPT !.century_reg = century_reg, !.n_c = @ + 1,
                                 !.at = "done", !.result = "true"]
           /\ rtc_time' = WriteSnapshot(rtc_time,
                              ApplyTimezone([rtc.f EXCEPT !.hour = rtc.hour],
                                            CenturyOf(rtc.status_b, century_reg)))
    /\ pc' = "ret"
    /\ UNCHANGED <<loc, fg_log, iflag, halted, idt_built, idt_loaded, hw, stack,
                   system_ticks, timer_dispatches, kbd_last, diag, mask_hist,
                   decoder, cmos>>

\* the seconds register as a number, in the format status B selects
SecondsNow(c) ==
    IF IsBcd(c.regs[RTC_STATUS_B]) THEN bcd_to_binary(c.regs[RTC_SECONDS])
    ELSE c.regs[RTC_SECONDS]

\* the seconds register one second later, in the same format
NextSecond(c) ==
    LET n == SecondsNow(c) + 1
    IN  IF IsBcd(c.regs[RTC_STATUS_B]) THEN (n \div 10) * 16 + (n % 10) ELSE n

\* the chip starts an update cycle: status A shows update-in-progress (cycles
\* that carry into the minute are left out)
RtcBeginUpdate ==
    /\ pc = "get_rtc_time"
    /\ ~cmos.uip
    /\ SecondsNow(cmos) < 59
    /\ cmos.updates < MaxUpdates
    /\ cmos' = [cmos EXCEPT !.uip = TRUE]
    /\ UNCHANGED <<pc, loc, fg_log, iflag, halted, idt_built, idt_loaded, hw, stack,
                   system_ticks, timer_dispatches, kbd_last, diag, mask_hist,
                   decoder, rtc, rtc_time>>

\* the update cycle ends: the seconds register has advanced
RtcEndUpdate ==
    /\ pc = "get_rtc_time"
    /\ cmos.uip
    /\ cmos' = [cmos EXCEPT !.uip = FALSE, !.updates = @ + 1,
                            !.regs[RTC_SECONDS] = NextSecond(cmos)]
    /\ UNCHANGED <<pc, loc, fg_log, iflag, halted, idt_built, idt_loaded, hw, stack,
                   system_ticks, timer_dispatches, kbd_last, diag, mask_hist,
                   decoder, rtc, rtc_time>>

RtcNext ==
    \/ CallGetRtcTime
    \/ RtcWaitPoll
    \/ RtcReadStatusB
    \/ RtcReadField
    \/ RtcConvert
    \/ RtcReadCentury
    \/ RtcBeginUpdate
    \/ RtcEndUpdate
    \/ Return

\* the booted kernel with the RTC holding any of the register contents
RtcInit ==
    /\ ApiCore
    /\ \E sc \in RtcScenarios, uip \in BOOLEAN :
          /\ uip => SecondsNow(CmosOf(sc, uip)) < 59
          /\ cmos = CmosOf(sc, uip)
    /\ rtc = RtcIdleLocals
    /\ rtc_time = NoTime

RtcSpec == RtcInit /\ [][RtcNext]_vars

\* the CPU keeps executing the call it is in
RtcCallStep ==
    RtcWaitPoll \/ RtcReadStatusB \/ RtcReadField \/ RtcConvert \/ RtcReadCentury

RtcFairSpec == RtcSpec /\ WF_vars(RtcCallStep)

\* ------------------------------------------------------------------ claims
Frames == {stack[k] : k \in 1..Len(stack)}
IrqFrames == {f \in Frames : f.kind = "irq"}
ExcFrames == {f \in Frames : f.kind = "exc"}
CountOut(log, port, val) ==
    Cardinality({i \in 1..Len(log) : log[i] = Out(port, val)})
IsEoi(e) == e.op = "out" /\ e.port \in {32, 160} /\ e.val = 32

\* C1: every delivery of a request line n is acknowledged exactly once: when
\* irq_handler has returned, its port writes hold the EOI code 0x20 exactly
\* once on port 0x20, and exactly once on port 0xA0 iff n >= 8; nothing has
\* been acknowledged before irq_handler ran.
C1_AckExactlyOnce ==
    \A f \in IrqFrames :
        /\ f.n \in 0..15
        /\ f.stage = "entry" => f.log = <<>>
        /\ f.stage = "returned" =>
              /\ CountOut(f.log, 32, 32) = 1
              /\ CountOut(f.log, 160, 32) = (IF f.n >= 8 THEN 1 ELSE 0)
              /\ Cardinality({i \in 1..Len(f.log) : f.log[i].op = "out"})
                    = (IF f.n >= 8 THEN 2 ELSE 1)

\* C1 witness: a line of the secondary controller has been dispatched and
\* acknowledged on both controllers.
C1_Witness ==
    \E f \in IrqFrames :
        /\ f.n >= 8
        /\ f.stage = "returned"
        /\ CountOut(f.log, 160, 32) = 1
        /\ CountOut(f.log, 32, 32) = 1
\* positions in a dispatch log
EoiPos(log) == {i \in 1..Len(log) : IsEoi(log[i])}
DevPos(log) == {i \in 1..Len(log) : log[i].op \in {"tick", "in", "handle_interrupt"}}

\* C2: within one dispatch the acknowledgement follows the device handling:
\* on line 1 the read of port 0x60 and then the hand-off of that byte to the
\* keyboard driver come before every EOI write, on line 0 the tick increment
\* comes before the EOI write, and no device step follows an EOI write.
C2_AckAfterDevice ==
    \A f \in IrqFrames :
        f.stage = "returned" =>
            /\ EoiPos(f.log) # {}
            /\ \A e \in EoiPos(f.log) : \A d \in DevPos(f.log) : d < e
            /\ f.n = 0 => /\ Len(f.log) = 2
                          /\ f.log[1].op = "tick"
            /\ f.n = 1 => /\ Len(f.log) = 3
                          /\ f.log[1].op = "in" /\ f.log[1].port = 96
                          /\ f.log[2].op = "handle_interrupt"
                          /\ f.log[2].val = f.log[1].val

\* C2 witness: a keyboard dispatch has read the data port, handed the byte over
\* and then acknowledged.
C2_Witness ==
    \E f \in IrqFrames :
        /\ f.n = 1
        /\ f.stage = "returned"
        /\ Len(f.log) = 3
        /\ IsEoi(f.log[3])

InService(n) == IF n < 8 THEN n \in hw.isr1 ELSE (n - 8) \in hw.isr2

\* C3: every request-line event that enters the dispatch path is eventually
\* acknowledged (its line leaves the in-service state) and control returns to
\* the interrupted foreground code (no frame is left), for every line 0..15.
C3_DispatchReturns ==
    \A n \in 0..15 :
        (\E f \in IrqFrames : f.n = n /\ f.stage = "entry")
            ~> (stack = <<>> /\ ~InService(n) /\ ~halted)

\* C3 witness: a line without an owning driver has gone through irq_handler,
\* is no longer in service and is about to return.
C3_Witness ==
    /\ stack # <<>>
    /\ Top.kind = "irq"
    /\ Top.n >= 2
    /\ Top.stage = "returned"
    /\ ~InService(Top.n)

\* C4: the tick counter starts at 0 and equals the number of line-0
\* dispatches whose handler has run: each adds exactly 1 and nothing else
\* (other lines, exceptions, set_pit_frequency, get_ticks, mask changes)
\* changes it; every change is +1 and is made by the handler of a line-0
\* dispatch, so the counter never decreases.
C4_TicksCountTimerDispatches ==
    /\ [](system_ticks + Cardinality({k \in 1..Len(stack) :
                                       /\ stack[k].kind = "irq"
                                       /\ stack[k].n = 0
                                       /\ stack[k].stage = "entry"})
            = timer_dispatches)
    /\ [][system_ticks' # system_ticks =>
             /\ system_ticks' = system_ticks + 1
             /\ stack # <<>>
             /\ Top.kind = "irq" /\ Top.n = 0 /\ Top.stage = "entry"
             /\ Len(stack') = Len(stack)
             /\ stack'[Len(stack)].stage = "returned"]_vars

\* C4 witness: two timer dispatches among keyboard dispatches, a returned
\* page fault and a reprogrammed timer.
C4_Witness ==
    /\ system_ticks = 2
    /\ timer_dispatches = 2
    /\ kbd_last # 0
    /\ diag # <<>>
    /\ hw.pit_div = 11931
    /\ Fg
\* C5: the value get_ticks() returns is a value the counter held at some
\* instant between the start and the end of the call.
C5_ReadIsHeldValue ==
    (pc = "ret" /\ loc.fn = "get_ticks") =>
        /\ loc.start <= loc.result
        /\ loc.result <= system_ticks

\* C6: dispatch is non-reentrant: while any interrupt frame is active the
\* interrupt flag is clear and at most one request-line frame exists, and the
\* return from a request-line frame restores the flag of the interrupted code.
C6_NonReentrant ==
    /\ [](/\ Cardinality({k \in 1..Len(stack) : stack[k].kind = "irq"}) <= 1
          /\ stack # <<>> => ~iflag)
    /\ [][(Len(stack) = 1 /\ stack[1].kind = "irq" /\ stack' = <<>>)
             => (iflag' = stack[1].saved_if /\ stack[1].saved_if)]_vars

\* C6 witness: the timer line is being dispatched, with the flag clear, in the
\* middle of a foreground get_ticks() that ran with the flag set.
C6_Witness ==
    /\ pc = "get_ticks"
    /\ Len(stack) = 1
    /\ Top.kind = "irq"
    /\ Top.n = 0
    /\ Top.saved_if
    /\ ~iflag

HasLine(what, v) == \E i \in 1..Len(diag) : diag[i] = Line(what, v)

C8_ErrorCodeVectors ==
    \A f \in ExcFrames :
        f.stage # "entry" =>
            /\ (\E i \in 1..Len(diag) : diag[i].line = "error_code")
                  <=> f.n \in {8, 10, 11, 12, 13, 14, 17, 30}
            /\ f.err = "cpu" <=> f.n \in {8, 10, 11, 12, 13, 14, 17, 30}

Writes(log) == SelectSeq(log, LAMBDA e : e.op = "out")

\* C9: init_pic writes, in this order, ICW1 0x11 to 0x20 and 0xA0, ICW2 32 to
\* 0x21 and 40 to 0xA1, ICW3 0x04 and 0x02, ICW4 0x01 and 0x01, and only then
\* the two masks; no data-port write precedes ICW1, no mask write precedes
\* ICW4, and on return both controllers are remapped and out of init mode.
C9_InitOrder ==
    loc.fn = "init_pic" =>
        LET w == Writes(fg_log)
            icw == << <<32, 17>>, <<160, 17>>, <<33, 32>>, <<161, 40>>,
                      <<33, 4>>, <<161, 2>>, <<33, 1>>, <<161, 1>> >>
        IN  /\ Len(w) <= 10
            /\ \A i \in 1..Len(w) :
                  /\ i <= 8 => <<w[i].port, w[i].val>> = icw[i]
                  /\ i = 9 => w[i].port = 33
                  /\ i = 10 => w[i].port = 161
            /\ pc = "ret" =>
                  /\ Len(w) = 10
                  /\ hw.pic1_icw = 0 /\ hw.pic2_icw = 0
                  /\ hw.pic1_base = 32 /\ hw.pic2_base = 40

\* C9 witness: init_pic has returned after its two reads and ten writes.
C9_Witness ==
    /\ pc = "ret"
    /\ loc.fn = "init_pic"
    /\ Len(fg_log) = 12
    /\ hw.pic1_base = 32

MaskFns == {"enable_irq", "disable_irq"}
\* a noted enable_irq / disable_irq call has reached its return
MaskCallDone == pc = "ret" /\ loc.fn \in MaskFns /\ mask_hist.fn = loc.fn

\* C11 as stated: enable_irq(n) followed directly by disable_irq(n) leaves the
\* mask bit of line n equal to the value it had before the enable_irq call.
C11_EnableDisableInverse ==
    (MaskCallDone /\ mask_hist.en_bit # 2) =>
        LineBit(hw.pic1_mask, hw.pic2_mask, mask_hist.irq) = mask_hist.en_bit

\* C11 amended: enable_irq(n) followed directly by disable_irq(n) leaves the
\* mask bit of line n set (line disabled); that equals the value before the
\* enable_irq call exactly when the line was disabled before it.
C11_EnableThenDisableMasks ==
    (MaskCallDone /\ mask_hist.en_bit # 2) =>
        /\ LineBit(hw.pic1_mask, hw.pic2_mask, mask_hist.irq) = 1
        /\ (LineBit(hw.pic1_mask, hw.pic2_mask, mask_hist.irq) = mask_hist.en_bit)
              <=> (mask_hist.en_bit = 1)

\* C11 witness: line 15, disabled before, has been enabled and disabled again.
C11_Witness ==
    /\ MaskCallDone
    /\ mask_hist.irq = 15
    /\ mask_hist.en_bit = 1
    /\ Bit(mask_hist.m2, 7) = 0
    /\ Bit(hw.pic2_mask, 7) = 1

\* the mask register owned by line n, in a pair of registers
OwnMask(m1, m2, n) == IF n < 8 THEN m1 ELSE m2
OtherMask(m1, m2, n) == IF n < 8 THEN m2 ELSE m1
OwnPort(n) == IF n < 8 THEN 33 ELSE 161

\* C12: for n in 0..15 a completed enable_irq(n) / disable_irq(n) has read the
\* data port of the owning controller and then written it once, with bit
\* n mod 8 cleared / set and the other seven bits as read; the register holds
\* that value, and the other controller's register was neither read nor
\* written and holds its prior value.
C12_MaskFrame ==
    (MaskCallDone /\ mask_hist.irq <= 15) =>
        LET n == mask_hist.irq
            old == OwnMask(mask_hist.m1, mask_hist.m2, n)
            new == OwnMask(hw.pic1_mask, hw.pic2_mask, n)
        IN  /\ fg_log = <<In(OwnPort(n), old), Out(OwnPort(n), new)>>
            /\ \A j \in 0..7 :
                  Bit(new, j) = IF j = n % 8
                                THEN (IF loc.fn = "enable_irq" THEN 0 ELSE 1)
                                ELSE Bit(old, j)
            /\ new \in 0..255
            /\ OtherMask(hw.pic1_mask, hw.pic2_mask, n)
                  = OtherMask(mask_hist.m1, mask_hist.m2, n)

\* C12 witness: enable_irq(15) has cleared bit 7 of the secondary mask 0xFF.
C12_Witness ==
    /\ MaskCallDone
    /\ loc.fn = "enable_irq"
    /\ mask_hist.irq = 15
    /\ mask_hist.m2 = 255
    /\ hw.pic2_mask = 127
    /\ Len(fg_log) = 2

\* C13: for n in 16..255 enable_irq(n) and disable_irq(n) return at once: no
\* port is read or written, both mask registers keep their values and nothing
\* is reported (no diagnostic output, no halt).
C13_InvalidLineNoOp ==
    /\ []((MaskCallDone /\ mask_hist.irq > 15) =>
            /\ fg_log = <<>>
            /\ hw.pic1_mask = mask_hist.m1
            /\ hw.pic2_mask = mask_hist.m2
            /\ diag = <<>>
            /\ ~halted)
    /\ [][(mask_hist' # mask_hist /\ mask_hist'.irq > 15) =>
             (pc' = "ret" /\ hw' = hw /\ diag' = diag)]_vars

\* C13 witness: disable_irq(255) has returned with a line-0 tick counted.
C13_Witness ==
    /\ MaskCallDone
    /\ loc.fn = "disable_irq"
    /\ mask_hist.irq = 255
    /\ system_ticks > 0

\* ---------------------------------------------- claims on the vector layout
\* C14: once init_idt has run, every entry v in 0..47 of the vector table has
\* selector 0x08, type/attribute 0x8E, zero byte 0 and a 16+16-bit offset equal
\* to the address of the trampoline of v; entries 48..255 are all zero; and no
\* later step changes the table.
C14_VectorTable ==
    /\ [](idt_built =>
            /\ \A v \in 0..47 :
                  /\ idt[v].selector = 8
                  /\ idt[v].type_attr = 142
                  /\ idt[v].zero = 0
                  /\ idt[v].offset_low \in 0..65535
                  /\ idt[v].offset_high \in 0..65535
                  /\ idt[v].offset_low + 65536 * idt[v].offset_high = StubAddr(v)
            /\ \A v \in 48..255 : idt[v] = NullGate)
    /\ [][idt_built => idt' = idt]_vars

\* C14 witness: the table is loaded and the CPU has vectored through entry 31.
C14_Witness ==
    /\ idt_built
    /\ idt_loaded
    /\ stack # <<>>
    /\ Top.kind = "exc"
    /\ Top.n = 31
    /\ Top.stage = "entry"

\* request lines that enter the in-service state in a step
NewInService == {n \in 0..15 : InService(n)' /\ ~InService(n)}

\* C15: once init_pic has run the primary controller presents base 32 and the
\* secondary base 40; every delivery of a request line n goes through vector
\* 32+n, never through a vector in 0..31, and the trampoline there hands
\* irq_handler the line number n.
C15_VectorLayout ==
    /\ []((idt_loaded /\ pc \notin {"start", "init_idt", "lidt", "init_pic"}) =>
            (hw.pic1_base = 32 /\ hw.pic2_base = 40))
    /\ [](\A f \in IrqFrames : f.stage = "entry" => InService(f.n))
    /\ [][NewInService # {} =>
             /\ Len(stack') = Len(stack) + 1
             /\ stack'[Len(stack')].kind = "irq"
             /\ LET n == stack'[Len(stack')].n
                IN  /\ n \in NewInService
                    /\ NewInService \subseteq {n, 2}
                    /\ LineVector(hw, n) = 32 + n
                    /\ StubAt(GateOffset(idt[32 + n])) = 32 + n]_vars

\* C15 witness: line 9 of the secondary controller is being dispatched.
C15_Witness ==
    /\ stack # <<>>
    /\ Top.kind = "irq"
    /\ Top.n = 9
    /\ Top.stage = "entry"
    /\ hw.pic2_base = 40
    /\ 1 \in hw.isr2

\* --------------------------------------------------- claims on the PIT driver
PitCallDone == pc = "ret" /\ loc.fn = "set_pit_frequency" /\ stack = <<>>

\* C16: on return from set_pit_frequency the interrupt-enable flag equals its
\* value at the moment of the call, whether that was set or clear.
C16_FlagRestored ==
    PitCallDone => (iflag = loc.if_call)

\* C17: set_pit_frequency performs, in this order, cli, 0x36 to port 0x43, the
\* divisor's low byte to port 0x40, its high byte to port 0x40, sti; from the
\* cli until the sti the interrupt flag is clear and no interrupt frame is
\* active, and on return the timer holds the command byte and the divisor.
C17_PitWritesUninterrupted ==
    loc.fn = "set_pit_frequency" =>
        LET seq == << Note("cli", 0),
                      Out(67, 54),
                      Out(64, loc.divisor % 256),
                      Out(64, (loc.divisor \div 256) % 256),
                      Note("sti", 0) >>
        IN  /\ Len(fg_log) <= 5
            /\ fg_log = SubSeq(seq, 1, Len(fg_log))
            /\ Len(fg_log) \in 1..4 => (~iflag /\ stack = <<>> /\ ~halted)
            /\ pc = "ret" => /\ Len(fg_log) = 5
                             /\ hw.pit_cmd = 54
                             /\ hw.pit_div = loc.divisor
                             /\ ~hw.pit_hi_next

\* C17 witness: called with interrupts enabled and ticks already counted, the
\* routine is between the low-byte and the high-byte write with the flag clear.
C17_Witness ==
    /\ pc = "set_pit_frequency"
    /\ loc.if_call
    /\ Len(fg_log) = 3
    /\ hw.pit_hi_next
    /\ system_ticks > 0
    /\ ~iflag

\* C18: a request below 19 (such as 0) is treated as 19 and a request above
\* 1193182 (such as 2000000) as 1193182: the divisor programmed is 62799 and
\* 1 respectively.
C18_Clamp ==
    PitCallDone =>
        /\ loc.frequency < 19 => hw.pit_div = 62799
        /\ loc.frequency > 1193182 => hw.pit_div = 1

\* C19: for a request hz in 19..1193182 the divisor written to port 0x40, low
\* byte then high byte, is floor(1193182 / hz).
C19_Divisor ==
    (PitCallDone /\ loc.frequency \in 19..1193182) =>
        /\ hw.pit_div = 1193182 \div loc.frequency
        /\ fg_log[3] = Out(64, (1193182 \div loc.frequency) % 256)
        /\ fg_log[4] = Out(64, ((1193182 \div loc.frequency) \div 256) % 256)

\* C20: get_seconds returns floor(t * 10 / 182) and get_milliseconds returns
\* floor(t * 549 / 10) for a value t the tick counter held during the call,
\* whatever frequency the timer is programmed to; neither changes the counter.
C20_ElapsedOfCounter ==
    /\ (pc = "ret" /\ loc.fn \in ElapsedFns) =>
          \E t \in loc.start..system_ticks : loc.result = Elapsed(loc.fn, t)
    /\ (pc = "elapsed" /\ stack = <<>>) => system_ticks >= loc.start

\* ------------------------------------------------ claims on the key decoder
AllBytes == 0..255
\* every combination of statics the decoder can hold
DecStates == {DecSt(sh, e, l) : sh \in BOOLEAN, e \in BOOLEAN, l \in {0, EXT_PREFIX}}
IsShiftCode(key_code) == key_code = LEFT_SHIFT \/ key_code = RIGHT_SHIFT
\* entry of the table selected by the shift state, 0 outside the table
TableEntry(k, shift) ==
    IF k < TABLE_SIZE THEN (IF shift THEN shifted ELSE unshifted)[k + 1] ELSE 0
\* the character of the two-byte run <<b1, b2>> started from statics st
Run2(st, b1, b2) ==
    LET r1 == scancode_to_char(st, b1)
        r2 == scancode_to_char(r1.st, b2)
    IN  [ch1 |-> r1.ch, ch2 |-> r2.ch, mid |-> r1.st, st |-> r2.st]

\* C21: decoding 0xE0 and then any byte b yields no character from the pair:
\* none for the 0xE0 and none for the byte that follows it.
C21_ExtendedPairSilent ==
    (dec_hist.n = 2 /\ dec_hist.b1 = EXT_PREFIX) =>
        (dec_hist.ch1 = 0 /\ dec_hist.ch = 0)

\* C22: 0xF0 sets the break-continuation flag and yields nothing; whenever the
\* flag is set the next byte decoded, whatever its value, clears the flag,
\* yields no character and leaves the shift flag alone.
C22_BreakContinuation ==
    /\ (dec_hist.n >= 1 /\ dec_hist.b = BREAK_PREFIX /\ ~dec_hist.pre.expecting_break_code)
          => (expecting_break_code /\ dec_hist.ch = 0)
    /\ (dec_hist.n >= 1 /\ dec_hist.pre.expecting_break_code)
          => /\ ~expecting_break_code
             /\ dec_hist.ch = 0
             /\ shift_pressed = dec_hist.pre.shift_pressed

\* C22 (amended): 0xF0 sets the flag and yields nothing; with the flag set, the
\* next byte other than 0xE0 and 0xF0 (shift codes included) clears the flag,
\* yields no character and leaves the shift flag alone, while a 0xE0 or 0xF0
\* decoded with the flag set yields nothing and leaves the flag set.
C22_BreakContinuationPlain ==
    /\ (dec_hist.n >= 1 /\ dec_hist.b = BREAK_PREFIX)
          => (expecting_break_code /\ dec_hist.ch = 0)
    /\ (dec_hist.n >= 1 /\ dec_hist.pre.expecting_break_code)
          => /\ dec_hist.ch = 0
             /\ shift_pressed = dec_hist.pre.shift_pressed
             /\ expecting_break_code <=> dec_hist.b \in {EXT_PREFIX, BREAK_PREFIX}
    /\ \A b \in AllBytes :
          LET r == scancode_to_char(CurDec, b)
          IN  /\ b = BREAK_PREFIX => (r.st.expecting_break_code /\ r.ch = 0)
              /\ expecting_break_code =>
                    /\ r.ch = 0
                    /\ r.st.shift_pressed = shift_pressed
                    /\ r.st.expecting_break_code <=> b \in {EXT_PREFIX, BREAK_PREFIX}

\* C22 witness: 0xF0 and then a left-shift press were decoded; the shift press
\* was consumed as the continuation.
C22_Witness ==
    /\ dec_hist.n = 2
    /\ dec_hist.b1 = BREAK_PREFIX
    /\ dec_hist.b = LEFT_SHIFT
    /\ dec_hist.pre.expecting_break_code
    /\ ~expecting_break_code
    /\ ~shift_pressed

\* C23: with the break flag clear, the character decoded for a byte that is
\* neither a prefix nor a shift code depends only on the byte and the shift
\* flag: any other decoder state with the same shift flag gives the same one.
C23_Determinism ==
    /\ \A b \in AllBytes, o \in DecStates :
          ( /\ b \notin {EXT_PREFIX, BREAK_PREFIX}
            /\ ~IsShiftCode(b % 128)
            /\ ~expecting_break_code
            /\ ~o.expecting_break_code
            /\ o.shift_pressed = shift_pressed )
          => scancode_to_char(CurDec, b).ch = scancode_to_char(o, b).ch
    /\ ( /\ dec_hist.n >= 1
         /\ ~dec_hist.pre.expecting_break_code
         /\ dec_hist.b \notin {EXT_PREFIX, BREAK_PREFIX}
         /\ ~IsShiftCode(dec_hist.b % 128) )
       => dec_hist.ch =
             scancode_to_char(DecSt(dec_hist.pre.shift_pressed, FALSE, 0), dec_hist.b).ch

\* C23 witness: the 'a' key decoded right after a recorded 0xE0 gave 'a', as it
\* does from the reset state.
C23_Witness ==
    /\ dec_hist.n = 2
    /\ dec_hist.b1 = EXT_PREFIX
    /\ dec_hist.b = 30
    /\ dec_hist.pre.last_scan_code = EXT_PREFIX
    /\ ~dec_hist.pre.shift_pressed
    /\ dec_hist.ch = 97

\* C24: with no break continuation pending, for every key code k whose table
\* entry under the current shift state is a non-zero character c, the press
\* byte k then the release byte k | 0x80 yield (c, none) and leave the decoder
\* state as it was before the pair.
C24_PressReleaseRoundTrip ==
    /\ \A k \in 0..(TABLE_SIZE - 1) :
          (~expecting_break_code /\ TableEntry(k, shift_pressed) # 0) =>
              LET r == Run2(CurDec, k, k + 128)
              IN  /\ r.ch1 = TableEntry(k, shift_pressed)
                  /\ r.ch2 = 0
                  /\ r.st = CurDec
    /\ ( /\ dec_hist.n = 2
         /\ ~dec_hist.pre2.expecting_break_code
         /\ TableEntry(dec_hist.b1, dec_hist.pre2.shift_pressed) # 0
         /\ dec_hist.b = dec_hist.b1 + 128 )
       => /\ dec_hist.ch1 = TableEntry(dec_hist.b1, dec_hist.pre2.shift_pressed)
          /\ dec_hist.ch = 0
          /\ CurDec = dec_hist.pre2

\* C24 witness: with shift held, the backspace key was pressed and released.
C24_Witness ==
    /\ dec_hist.n = 2
    /\ dec_hist.b1 = KEY_BACKSPACE
    /\ dec_hist.b = KEY_BACKSPACE + 128
    /\ dec_hist.pre2.shift_pressed
    /\ ~dec_hist.pre2.expecting_break_code
    /\ dec_hist.ch1 = 8

\* C25: a shift byte never yields a character; after a shift press every
\* following mapped key press yields its shifted-table character until a shift
\* release byte is decoded, after which key presses yield the unshifted one.
C25_ShiftLatch ==
    /\ (dec_hist.n >= 1 /\ IsShiftCode(dec_hist.b % 128)) => dec_hist.ch = 0
    /\ ( /\ dec_hist.n >= 1
         /\ TableEntry(dec_hist.b, FALSE) # 0
         /\ dec_hist.shift_byte # "none" )
       => dec_hist.ch = TableEntry(dec_hist.b, dec_hist.shift_byte = "press")

\* C25 (amended): a shift byte never yields a character; counting only bytes
\* decoded while no break continuation is pending, after a shift press every
\* mapped key press yields its shifted-table character until a shift release
\* byte, after which (and before any shift byte) it yields the unshifted one.
C25_ShiftLatchNoBreak ==
    /\ (dec_hist.n >= 1 /\ IsShiftCode(dec_hist.b % 128)) => dec_hist.ch = 0
    /\ (dec_hist.latch = "press") <=> shift_pressed
    /\ ( /\ dec_hist.n >= 1
         /\ ~dec_hist.pre.expecting_break_code
         /\ TableEntry(dec_hist.b, FALSE) # 0 )
       => dec_hist.ch = TableEntry(dec_hist.b, dec_hist.latch = "press")
    /\ \A k \in 0..(TABLE_SIZE - 1) :
          (~expecting_break_code /\ TableEntry(k, FALSE) # 0) =>
              /\ Run2(CurDec, LEFT_SHIFT, k).ch2 = shifted[k + 1]
              /\ Run2(CurDec, RIGHT_SHIFT, k).ch2 = shifted[k + 1]
              /\ Run2(CurDec, LEFT_SHIFT + 128, k).ch2 = unshifted[k + 1]
              /\ Run2(CurDec, RIGHT_SHIFT + 128, k).ch2 = unshifted[k + 1]

\* C25 witness: right shift pressed, then the 'a' key gave 'A'.
C25_Witness ==
    /\ dec_hist.n = 2
    /\ dec_hist.b1 = RIGHT_SHIFT
    /\ ~dec_hist.pre2.expecting_break_code
    /\ ~dec_hist.pre2.shift_pressed
    /\ dec_hist.b = 30
    /\ dec_hist.ch = 65
    /\ dec_hist.latch = "press"

\* a byte C26 calls absorbed: bit 7 set and the low bits not a shift code, or a
\* press whose key code is past the table or has a zero table entry
Absorbed(b) ==
    \/ b >= 128 /\ ~IsShiftCode(b % 128)
    \/ b < 128 /\ (b >= TABLE_SIZE \/ TableEntry(b, FALSE) = 0)

\* C26: a release byte of a non-shift key, and a press byte whose key code is
\* >= 0x3A or has a zero table entry, yield no character and leave the shift
\* flag, break flag and recorded prefix unchanged; no table lookup uses an
\* index outside 0..0x39.
C26_SilentlyAbsorbed ==
    /\ (dec_hist.n >= 1 /\ Absorbed(dec_hist.b)) =>
          (dec_hist.ch = 0 /\ CurDec = dec_hist.pre)
    /\ dec_hist.idx \in {NoIndex} \cup 0..(TABLE_SIZE - 1)

\* the bytes among those that change the decoder or yield the space character
AbsorbedPlain(b) ==
    /\ Absorbed(b)
    /\ b \notin {EXT_PREFIX, BREAK_PREFIX, LEFT_SHIFT, RIGHT_SHIFT, KEY_SPACE}

\* C26 (amended): decoded while no break continuation is pending, a release
\* byte other than 0xE0, 0xF0 and the shift releases, and a press byte whose
\* key code is >= 0x3A or has a zero table entry and is neither a shift code
\* nor the space code 0x39, yield no character and leave the decoder state
\* unchanged; no table lookup uses an index outside 0..0x39.
C26_AbsorbedPlain ==
    /\ (dec_hist.n >= 1 /\ ~dec_hist.pre.expecting_break_code /\ AbsorbedPlain(dec_hist.b))
          => (dec_hist.ch = 0 /\ CurDec = dec_hist.pre)
    /\ dec_hist.idx \in {NoIndex} \cup 0..(TABLE_SIZE - 1)
    /\ \A b \in AllBytes :
          LET r == scancode_to_char(CurDec, b)
          IN  /\ r.idx \in {NoIndex} \cup 0..(TABLE_SIZE - 1)
              /\ (~expecting_break_code /\ AbsorbedPlain(b))
                    => (r.ch = 0 /\ r.st = CurDec)

\* C26 witness: with shift held and a prefix recorded, a key code past the
\* table (0x7F) was decoded as a press and absorbed.
C26_Witness ==
    /\ dec_hist.n = 2
    /\ dec_hist.b = 127
    /\ ~dec_hist.pre.expecting_break_code
    /\ dec_hist.pre.shift_pressed
    /\ dec_hist.idx = NoIndex
    /\ dec_hist.ch = 0

\* ------------------------------------------------ claims on the RTC reader
\* the call has returned (true or false)
RtcReturned == rtc.result # "none"
\* the call got as far as converting a complete read
RtcConverted == Len(rtc.r1) = 6 /\ (rtc.at \in {"century", "done"} \/ RtcReturned)
RtcReads == rtc.n_a + rtc.n_b + rtc.n_f + rtc.n_c

\* C27: each wait polls status A at most MaxPolls times (1000 in the source);
\* when every poll of a wait shows update-in-progress the call returns false,
\* after the first wait without any time-field read; a call makes at most two
\* waits, one status-B read, eighteen time-field reads and one century read,
\* and every call returns.
C27_NeverHangs ==
    /\ [](/\ rtc.i <= MaxPolls
          /\ rtc.waits <= 2
          /\ rtc.n_a <= rtc.waits * MaxPolls
          /\ rtc.n_b <= 1
          /\ rtc.n_f <= 18
          /\ rtc.n_c <= 1
          /\ (rtc.at \in {"wait1", "wait2"} /\ rtc.i = MaxPolls)
                => (RtcReturned /\ rtc.result = "false" /\ cmos.uip)
          /\ (rtc.at = "wait1" /\ RtcReturned)
                => (rtc.n_a = MaxPolls /\ rtc.n_b = 0 /\ rtc.n_f = 0 /\ rtc.n_c = 0))
    /\ (pc = "get_rtc_time") ~> RtcReturned

\* C27 witness: the second wait timed out: twelve field reads were made, the
\* retry read was not, and the call returned false.
C27_Witness ==
    /\ RtcReturned
    /\ rtc.at = "wait2"
    /\ rtc.result = "false"
    /\ rtc.i = MaxPolls
    /\ rtc.n_f = 12
    /\ rtc.n_a > MaxPolls

\* the number a raw register byte stands for in the format of status B
RawValue(status_b, x) ==
    IF Bit(status_b, 2) = 0 THEN 10 * (x \div 16) + (x % 16) ELSE x

\* second, minute, day, month and year of the read are in range
OtherFieldsValid ==
    LET v(k) == RawValue(rtc.status_b, rtc.r1[k])
    IN  v(1) <= 59 /\ v(2) <= 59 /\ v(4) \in 1..31 /\ v(5) \in 1..12 /\ v(6) <= 99

\* C28: in 12-hour format the top bit of the raw hour byte is the PM flag and
\* the read succeeds with the 24-hour value: 12 PM gives 12, any other PM hour
\* h gives h + 12, 12 AM gives 0, any other AM hour stays, before the
\* timezone offset.
C28_TwelveHour ==
    ( /\ RtcReturned
      /\ RtcConverted
      /\ Bit(rtc.status_b, 1) = 0
      /\ OtherFieldsValid
      /\ RawValue(rtc.status_b, rtc.r1[3] % 128) \in 1..12 )
    => LET pm == Bit(rtc.r1[3], 7) = 1
           h12 == RawValue(rtc.status_b, rtc.r1[3] % 128)
       IN  /\ rtc.result = "true"
           /\ rtc.hour = IF pm THEN (IF h12 = 12 THEN 12 ELSE h12 + 12)
                         ELSE (IF h12 = 12 THEN 0 ELSE h12)

\* C29: get_rtc_time returns false whenever a converted field is out of range
\* (second > 59, minute > 59, hour > 23, day outside 1..31, month outside
\* 1..12, year > 99), and every snapshot it fills in has all six fields in
\* those ranges after the 12-hour conversion and the timezone offset.
C29_RangeValidation ==
    /\ (RtcReturned /\ RtcConverted) =>
          LET v(k) == RawValue(rtc.status_b, rtc.r1[k])
          IN  ( \/ v(1) > 59 \/ v(2) > 59 \/ v(3) > 23
                \/ v(4) < 1 \/ v(4) > 31 \/ v(5) < 1 \/ v(5) > 12 \/ v(6) > 99 )
              => (rtc.result = "false" /\ rtc_time = NoTime)
    /\ rtc.result = "true" =>
          /\ rtc_time.second <= 59
          /\ rtc_time.minute <= 59
          /\ rtc_time.hour <= 23
          /\ rtc_time.day \in 1..31
          /\ rtc_time.month \in 1..12
          /\ rtc_time.year <= 99

\* C29 witness: 99-12-31 23:59:59 was read and the offset rolled it over to
\* 01:59:59 on January 1 of year 0.
C29_Witness ==
    /\ RtcReturned
    /\ rtc.result = "true"
    /\ rtc.f.hour = 23
    /\ rtc.f.year = 99
    /\ rtc_time.hour = 1
    /\ rtc_time.day = 1
    /\ rtc_time.month = 1
    /\ rtc_time.year = 0

NextDate(d, m, y) ==
    LET last == IF m = 2 THEN (IF y % 4 = 0 THEN 29 ELSE 28)
                ELSE IF m \in {4, 6, 9, 11} THEN 30 ELSE 31
    IN  IF d < last THEN [day |-> d + 1, month |-> m, year |-> y]
        ELSE IF m < 12 THEN [day |-> 1, month |-> m + 1, year |-> y]
        ELSE [day |-> 1, month |-> 1, year |-> IF y = 99 THEN 0 ELSE y + 1]

\* C31: on a successful read, when the 24-hour hour plus the offset reaches 24
\* the hour wraps by 24 and the date is the next day under the year % 4 rule
\* (Feb 28 to Feb 29 in a year divisible by 4, to Mar 1 otherwise, month ends
\* to day 1 of the next month, Dec 31 to Jan 1 of year + 1, 99 wrapping to 0);
\* when it stays below 24 the date is the one read.
C31_TimezoneRollover ==
    rtc.result = "true" =>
        LET h == rtc.hour + RTC_TIMEZONE_OFFSET
            nd == NextDate(rtc.f.day, rtc.f.month, rtc.f.year)
        IN  IF h >= 24
            THEN /\ rtc_time.hour = h - 24
                 /\ rtc_time.day = nd.day
                 /\ rtc_time.month = nd.month
                 /\ rtc_time.year = nd.year
            ELSE /\ rtc_time.hour = h
                 /\ rtc_time.day = rtc.f.day
                 /\ rtc_time.month = rtc.f.month
                 /\ rtc_time.year = rtc.f.year

\* C31 witness: 22:30 on February 28 of year 24 was read and the snapshot is
\* 00:30 on February 29.
C31_Witness ==
    /\ rtc.result = "true"
    /\ rtc.hour = 22
    /\ rtc.f.day = 28
    /\ rtc.f.month = 2
    /\ rtc.f.year = 24
    /\ rtc_time.hour = 0
    /\ rtc_time.day = 29
    /\ rtc_time.month = 2

\* the century register is absent or holds neither 19 nor 20
CenturyUnusable ==
    \/ rtc.century_reg = 255
    \/ RawValue(rtc.status_b, rtc.century_reg) \notin {19, 20}

\* C32: a century register of 0xFF, or one that converts to neither 19 nor 20,
\* never makes get_rtc_time fail: once the century has been read the call
\* succeeds, and with such a register the snapshot's century is 0.
C32_CenturyOpportunistic ==
    /\ rtc.n_c = 1 => rtc.result = "true"
    /\ (rtc.at = "century" /\ rtc.result = "none") =>
          ENABLED RtcReadCentury
    /\ (rtc.n_c = 1 /\ CenturyUnusable) =>
          /\ rtc_time.century = 0
          /\ rtc_time.second = rtc.f.second
          /\ rtc_time.minute = rtc.f.minute

\* C32 witness: the century register held 0x21 in BCD mode and the call
\* succeeded with century 0.
C32_Witness ==
    /\ rtc.result = "true"
    /\ rtc.century_reg = 33
    /\ Bit(rtc.status_b, 2) = 0
    /\ rtc_time.century = 0
    /\ rtc_time.month = 5

\* C33: the six time fields are read twice; when the two reads agree the first
\* is converted and no further field is read; when they differ there is one
\* more wait (a timeout fails the call) and exactly one more read of the six
\* fields, which is converted without comparison; never more than one retry.
C33_DoubleReadSingleRetry ==
    /\ [](/\ rtc.n_f <= 18
          /\ rtc.waits <= 2
          /\ rtc.retried <=> rtc.waits = 2
          /\ rtc.at \in {"read2", "convert"} /\ ~rtc.retried => Len(rtc.r1) = 6
          /\ (rtc.at \in {"convert", "century", "done"} /\ ~rtc.null) =>
                /\ rtc.n_f = IF rtc.retried THEN 18 ELSE 12
                /\ Len(rtc.r1) = 6
          /\ (rtc.at = "wait2" /\ rtc.result = "false") => rtc.n_f = 12
          /\ rtc.at = "read3" => (rtc.retried /\ rtc.n_f = 12 + Len(rtc.r1)))
    /\ [][ /\ (rtc.at = "read2" /\ Len(rtc.r2) = 5 /\ rtc' # rtc) =>
                LET second == Append(rtc.r2, cmos.regs[RTC_YEAR])
                IN  IF second = rtc.r1
                    THEN rtc'.at = "convert" /\ rtc'.r1 = rtc.r1 /\ ~rtc'.retried
                    ELSE rtc'.at = "wait2" /\ rtc'.retried /\ rtc'.i = 0
           /\ (rtc.at = "read3" /\ Len(rtc.r1) = 5 /\ rtc' # rtc) =>
                /\ rtc'.at = "convert"
                /\ rtc'.r1 = Append(rtc.r1, cmos.regs[RTC_YEAR])
           /\ (rtc.at = "convert" /\ rtc' # rtc) =>
                /\ rtc'.n_f = rtc.n_f
                /\ \A k \in 1..6 :
                      <<rtc'.f.second, rtc'.f.minute, rtc'.f.hour, rtc'.f.day,
                        rtc'.f.month, rtc'.f.year>>[k]
                      = RawValue(rtc.status_b, rtc.r1[k])
           /\ (rtc.at \in {"century", "done"}) => rtc'.n_f = rtc.n_f ]_vars

\* C33 witness: the two reads differed, the retry read was made while a second
\* update completed, and the call succeeded after eighteen field reads.
C33_Witness ==
    /\ rtc.result = "true"
    /\ rtc.retried
    /\ rtc.n_f = 18
    /\ rtc.waits = 2
    /\ cmos.updates = 2

\* C37: every snapshot get_rtc_time fills in has century 0, 19 or 20, also
\* when the timezone adjustment rolls the year over from 99 to 0.
C37_CenturyValues ==
    rtc.result = "true" => rtc_time.century \in {0, 19, 20}

\* C39: whenever get_rtc_time has returned false (null pointer, timeout of
\* either wait, out-of-range field, invalid hour) the caller's structure holds
\* what it held before the call; the structure is written only by a call that
\* returns true, and then all seven fields are written.
C39_FailureLeavesSnapshot ==
    /\ [](rtc.result # "true" => rtc_time = NoTime)
    /\ [](rtc.result = "true" =>
            \A fld \in DOMAIN NoTime : rtc_time[fld] # NoTime[fld])
    /\ [][rtc_time' # rtc_time => (rtc.result = "none" /\ rtc'.result = "true")]_vars

\* C39 witness: the retry wait timed out after twelve field reads and the
\* structure is as the caller left it.
C39_Witness ==
    /\ rtc.result = "false"
    /\ rtc.at = "wait2"
    /\ rtc.n_f = 12
    /\ rtc_time = NoTime
    /\ cmos.updates = 1

\* the step in which irq_handler runs for the frame on top of the stack
HandlerRuns ==
    /\ stack # <<>>
    /\ Top.kind = "irq"
    /\ Top.stage = "entry"
    /\ Len(stack') = Len(stack)
    /\ stack'[Len(stack)].stage = "returned"

\* C34: the handler of a line in 2..15 leaves the tick counter, the decoder
\* state and both mask registers unchanged, reads no port and writes only EOI
\* commands; the handler of line 0 never reads the keyboard data port and the
\* handler of line 1 never changes the tick counter.
C34_FrameEffect ==
    /\ [](\A f \in IrqFrames :
            /\ (f.n \in 2..15 /\ f.stage = "returned") =>
                  \A i \in 1..Len(f.log) : IsEoi(f.log[i])
            /\ f.n = 0 =>
                  \A i \in 1..Len(f.log) :
                      ~(f.log[i].op = "in" /\ f.log[i].port = KBD_DATA_PORT))
    /\ [][HandlerRuns =>
             /\ Top.n \in 2..15 =>
                   /\ system_ticks' = system_ticks
                   /\ decoder' = decoder
                   /\ kbd_last' = kbd_last
                   /\ hw'.pic1_mask = hw.pic1_mask
                   /\ hw'.pic2_mask = hw.pic2_mask
                   /\ hw'.pit_div = hw.pit_div
             /\ Top.n = 1 => system_ticks' = system_ticks
             /\ Top.n = 0 => kbd_last' = kbd_last /\ decoder' = decoder]_vars

\* C34 witness: the handler of line 9 has returned after ticks were counted
\* and a key byte was taken, with its two EOI writes as its only port accesses.
C34_Witness ==
    /\ stack # <<>>
    /\ Top.kind = "irq"
    /\ Top.n = 9
    /\ Top.stage = "returned"
    /\ Top.log = <<Out(PIC2_COMMAND, PIC_EOI), Out(PIC1_COMMAND, PIC_EOI)>>
    /\ system_ticks > 0
    /\ kbd_last # 0
    /\ Bit(hw.pic2_mask, 1) = 0

\* ------------------------------------------------- claims on the boot order
\* kernel_main is between the call of init_pic and the return of init_pit
InPicPitInit ==
    \/ pc \in {"init_pic", "init_pit"}
    \/ pc \in {"set_pit_frequency", "ret"} /\ loc.ret \in {"init_pit", "kbd_init"}

\* kernel_main has not completed keyboard.init() and init_keyboard()
BeforeKbdInit == InPicPitInit \/ pc = "kbd_init"

\* kernel_main has called init_pic and not yet returned from enable_interrupts()
BootPhase == BeforeKbdInit \/ pc = "sti"

\* C35: interrupts stay disabled through init_pic, init_pit, keyboard.init and
\* init_keyboard and are first enabled by kernel_main's enable_interrupts(),
\* so no request-line dispatch happens before the keyboard initialisation has
\* completed.
C35_BootOrdering ==
    BootPhase => (~iflag /\ IrqFrames = {} /\ timer_dispatches = 0)

\* tick rate in tenths of a hertz of a channel-0 divisor (0 counts as 65536)
RateTenths(divisor) ==
    (PIT_BASE_FREQUENCY * 10) \div (IF divisor = 0 THEN 65536 ELSE divisor)

\* C36: init_pit programs the default frequency unclamped: 18 lies inside
\* the accepted range, the divisor written is the one computed from 18, and
\* the tick rate is the 18.2 Hz the clock conversions assume.
C36_DefaultUnclamped ==
    (PitCallDone /\ loc.ret = "kbd_init") =>
        /\ loc.frequency = PIT_DEFAULT_FREQUENCY
        /\ ClampFrequency(loc.frequency) = loc.frequency
        /\ hw.pit_div = (PIT_BASE_FREQUENCY \div PIT_DEFAULT_FREQUENCY) % 65536
        /\ RateTenths(hw.pit_div) = 182

\* the line's vector is in 32..47 and its gate points to the line's trampoline
LineGateReady(n) ==
    LET v == LineVector(hw, n)
    IN  /\ v = 32 + n
        /\ idt[v] # NullGate
        /\ idt[v].type_attr = GATE_INT32
        /\ StubAt(GateOffset(idt[v])) = v

\* C38: whenever interrupts are enabled the vector table has been built and
\* loaded and init_pic has completed the remap to 32..47, so every line that
\* can be delivered has a present gate on a vector outside 0..31; during the
\* boot (also after the sti inside set_pit_frequency) only lines 0 and 1 are
\* unmasked and only they are dispatched.
C38_BootInterruptsSafe ==
    /\ []((iflag \/ stack # <<>>) =>
            /\ idt_built
            /\ idt_loaded
            /\ pc \notin {"start", "init_idt", "lidt", "init_pic"}
            /\ hw.pic1_icw = 0 /\ hw.pic2_icw = 0
            /\ hw.pic1_base = 32 /\ hw.pic2_base = 40
            /\ \A n \in 0..15 : LineGateReady(n))
    /\ []((BootPhase /\ (iflag \/ stack # <<>>)) =>
            /\ hw.pic1_mask = 252
            /\ hw.pic2_mask = 255
            /\ \A f \in IrqFrames : f.n \in {0, 1})
    /\ [][(~iflag /\ iflag' /\ stack = <<>>) =>
             \/ pc = "sti"
             \/ pc = "set_pit_frequency" /\ loc.i = Len(set_pit_frequency_ops(loc.divisor))]_vars

\* C38 witness: the sti of set_pit_frequency has opened interrupts during
\* init_pit and the keyboard line is being dispatched on vector 33 before
\* kernel_main has initialised the keyboard.
C38_Witness ==
    /\ pc = "kbd_init"
    /\ stack # <<>>
    /\ Top.kind = "irq"
    /\ Top.n = 1
    /\ Top.stage = "entry"
    /\ Top.saved_if
    /\ LineVector(hw, 1) = 33
    /\ system_ticks > 0

\* ------------------------------------------------ claims on the shift flag
\* C40: shift_pressed is the direction of the most recent shift byte (0x2A,
\* 0x36 press; 0xAA, 0xB6 release) decoded while no break continuation was
\* pending, and false when there was none; the two shift keys share the flag,
\* so the release of either clears it while the other is held; no other byte
\* changes it.
C40_ShiftFlag ==
    /\ [](shift_pressed <=> dec_hist.latch = "press")
    /\ []((dec_hist.n >= 1 /\ ~dec_hist.pre.expecting_break_code) =>
            /\ dec_hist.b \in {LEFT_SHIFT, RIGHT_SHIFT} => shift_pressed
            /\ dec_hist.b \in {LEFT_SHIFT + 128, RIGHT_SHIFT + 128} => ~shift_pressed)
    /\ [](\A b \in AllBytes :
            LET r == scancode_to_char(CurDec, b)
            IN  r.st.shift_pressed =
                   IF ShiftByte(b) # "none" /\ ~expecting_break_code
                   THEN ShiftByte(b) = "press"
                   ELSE shift_pressed)
    /\ [][shift_pressed' # shift_pressed =>
             \/ dec_hist' = NoDecode /\ ~shift_pressed'
             \/ /\ dec_hist'.n >= 1
                /\ ShiftByte(dec_hist'.b) # "none"
                /\ ~expecting_break_code
                /\ shift_pressed' <=> ShiftByte(dec_hist'.b) = "press"]_vars

\* C40 witness: with the flag set by an earlier shift press, the right shift
\* was pressed and then the left shift released; the flag is clear although
\* the right shift is still held.
C40_Witness ==
    /\ dec_hist.n = 2
    /\ dec_hist.pre2.shift_pressed
    /\ ~dec_hist.pre2.expecting_break_code
    /\ dec_hist.b1 = RIGHT_SHIFT
    /\ dec_hist.b = LEFT_SHIFT + 128
    /\ dec_hist.latch = "release"
    /\ ~shift_pressed
====
